---------------------------- MODULE Spec2Model ----------------------------
(***************************************************************************)
(* Draft-generation pipeline of the customer-support copilot: the safety   *)
(* processor, the context retriever and assembler, the confidence engine,  *)
(* the fallback engine and the draft orchestrator (generateDraft), with    *)
(* the two callers of the orchestrator (POST /api/drafts and the pipeline  *)
(* test script).                                                           *)
(*                                                                         *)
(* Numbers.  The program computes with IEEE doubles; the model computes    *)
(* the same expressions exactly, in fixed point.  A similarity is an       *)
(* integer number of hundredths (82 is 0.82).  A confidence factor is an   *)
(* integer number of 1/FactorUnit, a confidence score an integer number    *)
(* of 1/ScoreUnit.  FactorUnit is chosen so that every division the        *)
(* program performs on the modelled inputs is exact.                       *)
(*                                                                         *)
(* Text.  A text is a sequence of tokens; a token stands for a run of      *)
(* characters of one class and carries the run's length.                   *)
(***************************************************************************)
EXTENDS Integers, Sequences, FiniteSets, TLC

VARIABLES
    entry,      \* which caller handles the request: "POST" or "testSingleQuery"
    raw,        \* the customer text of the request
    pc,         \* the caller's and the orchestrator's position
    safety,     \* the ProcessedInput of the request, once processUserInput ran
    query,      \* customerMessage as handed to generateDraft
    kbTask,     \* searchKnowledgeBase of this request: [st, res]
    tkTask,     \* searchSimilarTickets of this request: [st, res]
    fetch,      \* fetchTicketDetails: [todo, got]
    context,    \* the AssembledContext returned by buildFullContext
    confidence, \* the ConfidenceResult of step 2
    draft,      \* the DraftOutput returned by generateDraft
    terminal,   \* the return statement generateDraft left by
    response,   \* what the caller answered
    calls,      \* provider calls issued so far, per provider
    hin,        \* function harness: the arguments
    hout        \* function harness: the result

vars == <<entry, raw, pc, safety, query, kbTask, tkTask, fetch, context,
          confidence, draft, terminal, response, calls, hin, hout>>

pipelineVars == <<entry, raw, pc, safety, query, kbTask, tkTask, fetch, context,
                  confidence, draft, terminal, response, calls>>

harnessVars == <<hin, hout>>

(***************************************************************************)
(* Fixed point                                                             *)
(***************************************************************************)
SimUnit == 10 * 10
FactorUnit == 300 * SimUnit
ScoreUnit == 100 * FactorUnit

Min(a, b) == IF a <= b THEN a ELSE b
Max(a, b) == IF a >= b THEN a ELSE b
Abs(a) == IF a < 0 THEN -a ELSE a

RECURSIVE SumSeq(_)
SumSeq(s) == IF s = <<>> THEN 0 ELSE Head(s) + SumSeq(Tail(s))

RECURSIVE MaxSeq(_)
MaxSeq(s) == IF Len(s) = 1 THEN Head(s) ELSE Max(Head(s), MaxSeq(Tail(s)))

Take(s, n) == SubSeq(s, 1, Min(n, Len(s)))

\* Array.prototype.sort with the comparator (a, b) => b.similarity - a.similarity:
\* descending by similarity, stable (equal similarities keep their order).
RECURSIVE InsertDesc(_, _)
InsertDesc(x, s) ==
    IF s = <<>> THEN <<x>>
    ELSE IF Head(s).similarity >= x.similarity
         THEN <<Head(s)>> \o InsertDesc(x, Tail(s))
         ELSE <<x>> \o s

RECURSIVE SortBySimilarityDesc(_)

\* A sort that would leave the items in the order they arrived.
SortBySimilarityKeepOrder(items) == items

SortBySimilarityDesc(s) ==
    IF s = <<>> THEN <<>>
    ELSE LET front == SubSeq(s, 1, Len(s) - 1)
         IN InsertDesc(s[Len(s)], SortBySimilarityDesc(front))

(***************************************************************************)
(* Confidence engine (lib/ai/confidence)                                   *)
(***************************************************************************)
\* CONFIDENCE_WEIGHTS, in hundredths
SOURCE_RELEVANCE == 40
SOURCE_COVERAGE == 25
QUERY_CLARITY == 15
CONTEXT_MATCH == 20
\* CONFIDENCE_THRESHOLDS, in hundredths
HIGH == 75
MEDIUM == 50
\* QUERY_LENGTH_THRESHOLDS, in characters
TOO_SHORT == 10
OPTIMAL_MIN == 20
OPTIMAL_MAX == 200
TOO_LONG == 500
FULL_COVERAGE_SOURCE_COUNT == 5
TOP_SOURCES_COUNT == 3

Clamp01(x) == Max(0, Min(FactorUnit, x))

\* A relevance factor that would average every source instead of the top ones.
calculateSourceRelevanceAll(sources) ==
    IF Len(sources) = 0 THEN 0
    ELSE Clamp01((SumSeq([i \in 1..Len(sources) |-> sources[i].similarity])
                     * (FactorUnit \div SimUnit)) \div Len(sources))

\* sources: a sequence of [similarity |-> hundredths]
calculateSourceRelevance(sources) ==
    IF Len(sources) = 0 THEN 0
    ELSE LET sortedSources == Take(SortBySimilarityDesc(sources), TOP_SOURCES_COUNT)
             totalSimilarity ==
                 SumSeq([i \in 1..Len(sortedSources) |-> sortedSources[i].similarity])
             averageSimilarity ==
                 (totalSimilarity * (FactorUnit \div SimUnit)) \div Len(sortedSources)
         IN Clamp01(averageSimilarity)

\* A coverage factor that would be full as soon as one source is found.
calculateSourceCoverageFull(kbMatchCount, ticketMatchCount) ==
    IF kbMatchCount + ticketMatchCount = 0 THEN 0 ELSE FactorUnit

calculateSourceCoverage(kbMatchCount, ticketMatchCount) ==
    LET totalSources == kbMatchCount + ticketMatchCount
    IN IF totalSources = 0 THEN 0
       ELSE Min(FactorUnit, (totalSources * FactorUnit) \div FULL_COVERAGE_SOURCE_COUNT)

calculateQueryClarity(queryLength) ==
    IF queryLength <= 0 THEN 0
    ELSE IF queryLength < TOO_SHORT
    THEN \* 0.2 + (queryLength / TOO_SHORT) * 0.2
         (20 * FactorUnit + (queryLength * 20 * FactorUnit) \div TOO_SHORT) \div 100
    ELSE IF queryLength < OPTIMAL_MIN
    THEN \* 0.4 + progress * 0.3
         (40 * FactorUnit
            + ((queryLength - TOO_SHORT) * 30 * FactorUnit) \div (OPTIMAL_MIN - TOO_SHORT))
         \div 100
    ELSE IF queryLength <= OPTIMAL_MAX
    THEN \* 0.85 + (1 - distanceFromMid / maxDistance) * 0.15, distances doubled
         LET midpoint2 == OPTIMAL_MIN + OPTIMAL_MAX
             distanceFromMid2 == Abs(2 * queryLength - midpoint2)
             maxDistance2 == OPTIMAL_MAX - OPTIMAL_MIN
         IN (85 * FactorUnit + 15 * FactorUnit
               - (distanceFromMid2 * 15 * FactorUnit) \div maxDistance2) \div 100
    ELSE IF queryLength <= TOO_LONG
    THEN \* 0.85 - progress * 0.25
         (85 * FactorUnit
            - ((queryLength - OPTIMAL_MAX) * 25 * FactorUnit) \div (TOO_LONG - OPTIMAL_MAX))
         \div 100
    ELSE \* Math.max(0.4, 0.6 - Math.min(0.2, excessLength / 1000 * 0.2))
         LET excessLength == queryLength - TOO_LONG
             reduction == Min(20 * FactorUnit, (excessLength * 20 * FactorUnit) \div 1000)
         IN Max(40 * FactorUnit, 60 * FactorUnit - reduction) \div 100

calculateContextMatch(sources) ==
    IF Len(sources) = 0 THEN 0
    ELSE LET maxSimilarity ==
                 MaxSeq([i \in 1..Len(sources) |-> sources[i].similarity])
         IN Clamp01(maxSimilarity * (FactorUnit \div SimUnit))

calculateFactors(sources, queryLength, kbMatchCount, ticketMatchCount) ==
    [sourceRelevance |-> calculateSourceRelevance(sources),
     sourceCoverage  |-> calculateSourceCoverage(kbMatchCount, ticketMatchCount),
     queryClarity    |-> calculateQueryClarity(queryLength),
     contextMatch    |-> calculateContextMatch(sources)]

WeightedSum(factors) ==
    factors.sourceRelevance * SOURCE_RELEVANCE
      + factors.sourceCoverage * SOURCE_COVERAGE
      + factors.queryClarity * QUERY_CLARITY
      + factors.contextMatch * CONTEXT_MATCH

calculateWeightedScore(factors) == Max(0, Min(ScoreUnit, WeightedSum(factors)))

\* A level function whose high band would start five hundredths lower.
getConfidenceLevelLoose(score) ==
    IF score >= (HIGH - 5) * FactorUnit THEN "high"
    ELSE IF score >= MEDIUM * FactorUnit THEN "medium"
    ELSE "low"

getConfidenceLevel(score) ==
    IF score >= HIGH * FactorUnit THEN "high"
    ELSE IF score >= MEDIUM * FactorUnit THEN "medium"
    ELSE "low"

\* The explanation is a sentence list keyed off the level; the model keeps its
\* first sentence, which names the level the text was written for.
getConfidenceExplanation(factors, level) ==
    IF level = "high" THEN "High confidence:"
    ELSE IF level = "medium" THEN "Medium confidence:"
    ELSE "Low confidence:"

calculateConfidence(sources, queryLength, kbMatchCount, ticketMatchCount) ==
    LET factors == calculateFactors(sources, queryLength, kbMatchCount, ticketMatchCount)
        score == calculateWeightedScore(factors)
        level == getConfidenceLevel(score)
    IN [score |-> score, factors |-> factors, level |-> level,
        explanation |-> getConfidenceExplanation(factors, level)]


\* A review rule that would not look at the query clarity.
shouldFlagForReviewNoClarity(result) ==
    \/ result.level = "low"
    \/ result.factors.sourceCoverage = 0

shouldFlagForReview(result) ==
    \/ result.level = "low"
    \/ result.factors.sourceCoverage = 0
    \/ 10 * result.factors.queryClarity < 3 * FactorUnit

(***************************************************************************)
(* Fallback engine (lib/ai/fallback.ts)                                    *)
(***************************************************************************)
\* FALLBACK_THRESHOLDS: confidences in hundredths, lengths in characters
MIN_CONFIDENCE_WITH_SOURCES == 40
MIN_CONFIDENCE_ABSOLUTE == 30
MIN_QUERY_LENGTH == 10
MAX_QUERY_LENGTH == 1000

\* A gate whose comparisons would include the thresholds themselves.
shouldUseFallbackInclusive(confidenceScore, sourcesCount) ==
    IF confidenceScore <= MIN_CONFIDENCE_ABSOLUTE * FactorUnit THEN TRUE
    ELSE IF confidenceScore <= MIN_CONFIDENCE_WITH_SOURCES * FactorUnit /\ sourcesCount = 0
    THEN TRUE
    ELSE FALSE

\* A gate that would apply the no-sources threshold whatever the number of sources.
shouldUseFallbackBelowWithSources(confidenceScore, sourcesCount) ==
    confidenceScore < MIN_CONFIDENCE_WITH_SOURCES * FactorUnit

shouldUseFallback(confidenceScore, sourcesCount) ==
    IF confidenceScore < MIN_CONFIDENCE_ABSOLUTE * FactorUnit THEN TRUE
    ELSE IF confidenceScore < MIN_CONFIDENCE_WITH_SOURCES * FactorUnit /\ sourcesCount = 0
    THEN TRUE
    ELSE FALSE

\* A reason selection whose similarity check would use the absolute floor.
getFallbackReasonAbsolute(confidenceScore, sourcesCount, queryLength) ==
    IF queryLength < MIN_QUERY_LENGTH \/ queryLength > MAX_QUERY_LENGTH
    THEN "unclear_query"
    ELSE IF sourcesCount = 0 THEN "no_sources"
    ELSE IF sourcesCount > 0 /\ confidenceScore < MIN_CONFIDENCE_ABSOLUTE * FactorUnit
    THEN "low_similarity"
    ELSE "generation_error"

getFallbackReason(confidenceScore, sourcesCount, queryLength) ==
    IF queryLength < MIN_QUERY_LENGTH \/ queryLength > MAX_QUERY_LENGTH
    THEN "unclear_query"
    ELSE IF sourcesCount = 0 THEN "no_sources"
    ELSE IF sourcesCount > 0 /\ confidenceScore < 40 * FactorUnit THEN "low_similarity"
    ELSE "generation_error"

\* FALLBACK_TEMPLATES: the model names each template's content by its reason and
\* keeps the number of suggested actions.
FallbackTemplateActions(reason) == IF reason = "generation_error" THEN 2 ELSE 3

generateFallbackResponse(reason) ==
    [content |-> [template |-> reason], isFallback |-> TRUE, reason |-> reason,
     suggestedActions |-> FallbackTemplateActions(reason)]

\* An error fallback that would pick the no_sources template.
generateErrorFallbackNoSources == generateFallbackResponse("no_sources")

generateErrorFallback == generateFallbackResponse("generation_error")

(***************************************************************************)
(* Text                                                                    *)
(* Token classes: "txt" a run of ordinary characters (letters) that is     *)
(* part of no rule's phrase and neither starts nor ends with white space;  *)
(* "sp" a run of spaces or tabs; "nl" a run of newlines; "zw" a run of     *)
(* zero-width characters (U+200B..U+200D), which \s does not match; "ctl"  *)
(* a run of control characters; "kw" one word of a rule's phrase, named by *)
(* w; "lit" a run given character by character in w (digits, "@" and the   *)
(* other characters the PII patterns name occur only in such runs).        *)
(***************************************************************************)
Tok(k, w, n) == [k |-> k, w |-> w, n |-> n]
Txt(n) == Tok("txt", "", n)
Sp(n) == Tok("sp", "", n)
Nl(n) == Tok("nl", "", n)
Zw(n) == Tok("zw", "", n)
Ctl(n) == Tok("ctl", "", n)
Kw(w, n) == Tok("kw", w, n)
\* a run spelled out character by character (no white space at either end)
Lit(chars) == Tok("lit", chars, Len(chars))

IsSpace(t) == t.k \in {"sp", "nl"}

TextLen(text) == SumSeq([i \in 1..Len(text) |-> text[i].n])

\* Adjacent runs of one class are one run.
RECURSIVE Merge(_)
Merge(text) ==
    IF Len(text) < 2 THEN text
    ELSE LET a == text[1]
             b == text[2]
         IN IF a.k = b.k /\ a.k \notin {"kw", "lit"}
            THEN Merge(<<Tok(a.k, "", a.n + b.n)>> \o SubSeq(text, 3, Len(text)))
            ELSE <<a>> \o Merge(Tail(text))

RemoveKind(text, k) == Merge(SelectSeq(text, LAMBDA t : t.k # k))

RECURSIVE TrimStart(_)
TrimStart(text) ==
    IF text # <<>> /\ IsSpace(Head(text)) THEN TrimStart(Tail(text)) ELSE text

RECURSIVE TrimEnd(_)
TrimEnd(text) ==
    IF text # <<>> /\ IsSpace(text[Len(text)])
    THEN TrimEnd(SubSeq(text, 1, Len(text) - 1))
    ELSE text

\* A trim that would leave trailing white space in place.
TrimLeading(text) == TrimStart(text)

\* String.prototype.trim
Trim(text) == TrimEnd(TrimStart(text))

\* !query || query.trim().length === 0
IsEmptyQuery(text) == TextLen(text) = 0 \/ TextLen(Trim(text)) = 0

\* String.prototype.substring(0, max)
RECURSIVE Substring(_, _)
Substring(text, max) ==
    IF text = <<>> \/ max <= 0 THEN <<>>
    ELSE IF Head(text).n <= max
         THEN <<Head(text)>> \o Substring(Tail(text), max - Head(text).n)
         ELSE IF Head(text).k = "lit" THEN <<Lit(SubSeq(Head(text).w, 1, max))>>
         ELSE <<Tok(IF Head(text).k = "kw" THEN "txt" ELSE Head(text).k, "", max)>>

(***************************************************************************)
(* Input sanitization (lib/safety/sanitization)                            *)
(***************************************************************************)
MAX_INPUT_LENGTH == 10000

\* index of the first token at or after i that is not white space
RECURSIVE SkipSpace(_, _)
SkipSpace(text, i) ==
    IF i <= Len(text) /\ IsSpace(text[i]) THEN SkipSpace(text, i + 1) ELSE i

IsKw(text, i, words) == i <= Len(text) /\ text[i].k = "kw" /\ text[i].w \in words

\* /ignore\s+(all\s+|previous\s+|your\s+|the\s+)?instructions?/i at token i
IgnoreInstructionsAt(text, i) ==
    /\ IsKw(text, i, {"ignore"})
    /\ LET j == SkipSpace(text, i + 1)
       IN /\ j > i + 1
          /\ \/ IsKw(text, j, {"instructions"})
             \/ /\ IsKw(text, j, {"all", "previous", "your", "the"})
                /\ LET k == SkipSpace(text, j + 1)
                   IN k > j + 1 /\ IsKw(text, k, {"instructions"})

\* /<\/?(?:system|instructions?|prompt|override|admin)>/i at token i
XmlTagInjectionAt(text, i) == IsKw(text, i, {"<system>"})

\* PROMPT_INJECTION_PATTERNS restricted to the rules whose phrases the token
\* alphabet can spell: name, risk tier and matcher.
InjectionRules == {
    [name |-> "ignore_instructions", risk |-> "high"],
    [name |-> "xml_tag_injection", risk |-> "medium"] }

RuleMatches(name, text) ==
    \E i \in 1..Len(text) :
        IF name = "ignore_instructions" THEN IgnoreInstructionsAt(text, i)
        ELSE XmlTagInjectionAt(text, i)

detectPromptInjection(text) ==
    LET patterns == {r.name : r \in {q \in InjectionRules : RuleMatches(q.name, text)}}
    IN [detected |-> patterns # {}, patterns |-> patterns]


\* A risk calculation that would not look at the truncation flag.
calculateRiskLevelNoTruncation(injectionResult, flags) ==
    IF \E r \in InjectionRules : r.risk = "high" /\ r.name \in injectionResult.patterns
    THEN "high"
    ELSE IF \E r \in InjectionRules : r.risk = "medium" /\ r.name \in injectionResult.patterns
    THEN "medium"
    ELSE IF flags \cap {"control_characters", "invisible_characters", "excessive_whitespace"} # {}
    THEN "low"
    ELSE "none"

calculateRiskLevel(injectionResult, flags) ==
    IF \E r \in InjectionRules : r.risk = "high" /\ r.name \in injectionResult.patterns
    THEN "high"
    ELSE IF \E r \in InjectionRules : r.risk = "medium" /\ r.name \in injectionResult.patterns
    THEN "medium"
    ELSE IF flags \cap {"control_characters", "invisible_characters", "excessive_whitespace"} # {}
    THEN "low"
    ELSE IF "truncated" \in flags THEN "low"
    ELSE "none"

\* A normalisation that would rewrite every run of blanks, short ones included.
CollapseEveryRun(text) ==
    [i \in 1..Len(text) |->
        IF text[i].k = "sp" THEN Sp(2)
        ELSE IF text[i].k = "nl" /\ text[i].n >= 4 THEN Nl(3)
        ELSE text[i]]

\* /[ \t]{3,}/g -> two spaces, /\n{4,}/g -> three newlines
CollapseWhitespace(text) ==
    [i \in 1..Len(text) |->
        IF text[i].k = "sp" /\ text[i].n >= 3 THEN Sp(2)
        ELSE IF text[i].k = "nl" /\ text[i].n >= 4 THEN Nl(3)
        ELSE text[i]]

sanitizeInput(text) ==
    IF TextLen(text) = 0
    THEN [sanitizedText |-> <<>>, wasModified |-> FALSE, flags |-> {}, riskLevel |-> "none"]
    ELSE
    LET injectionResult == detectPromptInjection(text)
        f1 == {"prompt_injection_" \o p : p \in injectionResult.patterns}
        t2 == RemoveKind(text, "ctl")
        f2 == IF t2 # text THEN {"control_characters"} ELSE {}
        t3 == RemoveKind(t2, "zw")
        f3 == IF t3 # t2 THEN {"invisible_characters"} ELSE {}
        t4 == CollapseWhitespace(t3)
        f4 == IF t4 # t3 THEN {"excessive_whitespace"} ELSE {}
        t5 == Trim(t4)
        t6 == IF TextLen(t5) > MAX_INPUT_LENGTH THEN Substring(t5, MAX_INPUT_LENGTH) ELSE t5
        f6 == IF TextLen(t5) > MAX_INPUT_LENGTH THEN {"truncated"} ELSE {}
        flags == f1 \cup f2 \cup f3 \cup f4 \cup f6
    IN [sanitizedText |-> t6,
        wasModified |-> (t2 # text \/ t3 # t2 \/ t4 # t3 \/ t5 # t4 \/ TextLen(t5) > MAX_INPUT_LENGTH),
        flags |-> flags,
        riskLevel |-> calculateRiskLevel(injectionResult, flags)]

(***************************************************************************)
(* PII detection and redaction (lib/safety/pii-detection.ts, redaction)    *)
(* Here a text is the sequence of its characters, and a position is the    *)
(* number of characters before it, as String indices are.  The patterns    *)
(* are the regular expressions of the source, matched as a backtracking    *)
(* matcher does: MatchEnds lists the positions where a match begun at i    *)
(* can end, in the order the matcher tries them; the first one is the      *)
(* match RegExp.prototype.exec reports.                                    *)
(***************************************************************************)
LowerCase == <<"a", "b", "c", "d", "e", "f", "g", "h", "i", "j", "k", "l", "m", "n", "o", "p", "q", "r", "s", "t", "u", "v", "w", "x", "y", "z">>

UpperCase == <<"A", "B", "C", "D", "E", "F", "G", "H", "I", "J", "K", "L", "M", "N", "O", "P", "Q", "R", "S", "T", "U", "V", "W", "X", "Y", "Z">>

Digit == {"0", "1", "2", "3", "4", "5", "6", "7", "8", "9"}

Alpha == {LowerCase[i] : i \in 1..Len(LowerCase)} \cup {UpperCase[i] : i \in 1..Len(UpperCase)}

\* \w
WordChar == Alpha \cup Digit \cup {"_"}

\* \s (the blank, the tab and the line feed)
Space == {" ", "\t", "\n"}

ToUpper(c) ==
    IF \E i \in 1..Len(LowerCase) : LowerCase[i] = c
    THEN UpperCase[CHOOSE i \in 1..Len(LowerCase) : LowerCase[i] = c]
    ELSE c

\* regular-expression terms
Set(chars) == [op |-> "set", set |-> chars]

Ch(c) == Set({c})

Cat(parts) == [op |-> "cat", parts |-> parts]

Alt(alts) == [op |-> "alt", alts |-> alts]

\* a greedy quantifier {min,max}; max = -1 stands for no upper limit
Rep(re, min, max) == [op |-> "rep", of |-> re, min |-> min, max |-> max]

Opt(re) == Rep(re, 0, 1)

Plus(re) == Rep(re, 1, -1)

\* \b
WordBoundary == [op |-> "wb"]

\* (?!re)
NotAhead(re) == [op |-> "nla", of |-> re]

Word(chars) == Cat([i \in 1..Len(chars) |-> Ch(chars[i])])

\* a literal under the i flag
WordCI(chars) == Cat([i \in 1..Len(chars) |-> Set({chars[i], ToUpper(chars[i])})])

IsWordAt(text, p) == p >= 1 /\ p <= Len(text) /\ text[p] \in WordChar

RECURSIVE MatchEnds(_, _, _), CatEnds(_, _, _, _), AltEnds(_, _, _, _),
          RepEnds(_, _, _, _, _), EachEnd(_, _, _), EachRep(_, _, _, _, _)
\* the ends of re begun at each of the positions starts, in order
EachEnd(re, text, starts) ==
    IF starts = <<>> THEN <<>>
    ELSE MatchEnds(re, text, Head(starts)) \o EachEnd(re, text, Tail(starts))

CatEnds(parts, k, text, starts) ==
    IF k > Len(parts) \/ starts = <<>> THEN starts
    ELSE CatEnds(parts, k + 1, text, EachEnd(parts[k], text, starts))

AltEnds(alts, k, text, i) ==
    IF k > Len(alts) THEN <<>>
    ELSE MatchEnds(alts[k], text, i) \o AltEnds(alts, k + 1, text, i)

EachRep(re, min, max, text, starts) ==
    IF starts = <<>> THEN <<>>
    ELSE RepEnds(re, min, max, text, Head(starts)) \o EachRep(re, min, max, text, Tail(starts))

\* greedy: one more iteration is tried before stopping here
RepEnds(re, min, max, text, i) ==
    LET once == IF max = 0 THEN <<>>
                ELSE SelectSeq(MatchEnds(re, text, i), LAMBDA e : e > i)
        more == EachRep(re, min - 1, max - 1, text, once)
    IN IF min <= 0 THEN Append(more, i) ELSE more

MatchEnds(re, text, i) ==
    CASE re.op = "set" -> IF i < Len(text) /\ text[i + 1] \in re.set THEN <<i + 1>> ELSE <<>>
      [] re.op = "cat" -> CatEnds(re.parts, 1, text, <<i>>)
      [] re.op = "alt" -> AltEnds(re.alts, 1, text, i)
      [] re.op = "rep" -> RepEnds(re.of, re.min, re.max, text, i)
      [] re.op = "wb" -> IF IsWordAt(text, i) # IsWordAt(text, i + 1) THEN <<i>> ELSE <<>>
      [] re.op = "nla" -> IF MatchEnds(re.of, text, i) = <<>> THEN <<i>> ELSE <<>>

D == Set(Digit)

\* /[a-zA-Z0-9._%+-]+@[a-zA-Z0-9.-]+\.[a-zA-Z]{2,}/g
EMAIL_PATTERN ==
    Cat(<<Plus(Set(Alpha \cup Digit \cup {".", "_", "%", "+", "-"})), Ch("@"),
          Plus(Set(Alpha \cup Digit \cup {".", "-"})), Ch("."), Rep(Set(Alpha), 2, -1)>>)

\* /(?:\+1[-.\s]?)?(?:\(?\d{3}\)?[-.\s]?)\d{3}[-.\s]?\d{4}\b/g
PHONE_PATTERN ==
    Cat(<<Opt(Cat(<<Ch("+"), Ch("1"), Opt(Set({"-", "."} \cup Space))>>)),
          Cat(<<Opt(Ch("(")), Rep(D, 3, 3), Opt(Ch(")")), Opt(Set({"-", "."} \cup Space))>>),
          Rep(D, 3, 3), Opt(Set({"-", "."} \cup Space)), Rep(D, 4, 4), WordBoundary>>)

\* /\b(?!000|666|9\d{2})\d{3}[-\s]?(?!00)\d{2}[-\s]?(?!0000)\d{4}\b/g
SSN_PATTERN ==
    Cat(<<WordBoundary,
          NotAhead(Alt(<<Word(<<"0", "0", "0">>), Word(<<"6", "6", "6">>),
                         Cat(<<Ch("9"), Rep(D, 2, 2)>>)>>)),
          Rep(D, 3, 3), Opt(Set({"-"} \cup Space)),
          NotAhead(Word(<<"0", "0">>)), Rep(D, 2, 2), Opt(Set({"-"} \cup Space)),
          NotAhead(Word(<<"0", "0", "0", "0">>)), Rep(D, 4, 4), WordBoundary>>)

\* /\b(?:\d{4}[-\s]?){3}\d{1,7}\b|\b\d{13,19}\b/g
CREDIT_CARD_PATTERN ==
    Alt(<<Cat(<<WordBoundary, Rep(Cat(<<Rep(D, 4, 4), Opt(Set({"-"} \cup Space))>>), 3, 3),
                Rep(D, 1, 7), WordBoundary>>),
          Cat(<<WordBoundary, Rep(D, 13, 19), WordBoundary>>)>>)

\* (?:25[0-5]|2[0-4]\d|1\d{2}|[1-9]?\d)
Octet ==
    Alt(<<Cat(<<Ch("2"), Ch("5"), Set({"0", "1", "2", "3", "4", "5"})>>),
          Cat(<<Ch("2"), Set({"0", "1", "2", "3", "4"}), D>>),
          Cat(<<Ch("1"), Rep(D, 2, 2)>>),
          Cat(<<Opt(Set(Digit \ {"0"})), D>>)>>)

\* /\b(?:(?:25[0-5]|2[0-4]\d|1\d{2}|[1-9]?\d)\.){3}(?:25[0-5]|2[0-4]\d|1\d{2}|[1-9]?\d)\b/g
IP_ADDRESS_PATTERN ==
    Cat(<<WordBoundary, Rep(Cat(<<Octet, Ch(".")>>), 3, 3), Octet, WordBoundary>>)

\* /\b\d{1,6}\s+[A-Za-z0-9\s]{2,30}\s+(?:Street|St\.?|Avenue|...|Trl\.?)\b/gi
ADDRESS_PATTERN ==
    Cat(<<WordBoundary, Rep(D, 1, 6), Plus(Set(Space)),
          Rep(Set(Alpha \cup Digit \cup Space), 2, 30), Plus(Set(Space)),
          Alt(<<WordCI(<<"s", "t", "r", "e", "e", "t">>),
              Cat(<<WordCI(<<"s", "t">>), Opt(Ch("."))>>),
              WordCI(<<"a", "v", "e", "n", "u", "e">>),
              Cat(<<WordCI(<<"a", "v", "e">>), Opt(Ch("."))>>),
              WordCI(<<"b", "o", "u", "l", "e", "v", "a", "r", "d">>),
              Cat(<<WordCI(<<"b", "l", "v", "d">>), Opt(Ch("."))>>),
              WordCI(<<"d", "r", "i", "v", "e">>),
              Cat(<<WordCI(<<"d", "r">>), Opt(Ch("."))>>),
              WordCI(<<"r", "o", "a", "d">>),
              Cat(<<WordCI(<<"r", "d">>), Opt(Ch("."))>>),
              WordCI(<<"l", "a", "n", "e">>),
              Cat(<<WordCI(<<"l", "n">>), Opt(Ch("."))>>),
              WordCI(<<"c", "o", "u", "r", "t">>),
              Cat(<<WordCI(<<"c", "t">>), Opt(Ch("."))>>),
              WordCI(<<"p", "l", "a", "c", "e">>),
              Cat(<<WordCI(<<"p", "l">>), Opt(Ch("."))>>),
              WordCI(<<"w", "a", "y">>),
              WordCI(<<"c", "i", "r", "c", "l", "e">>),
              Cat(<<WordCI(<<"c", "i", "r">>), Opt(Ch("."))>>),
              WordCI(<<"t", "r", "a", "i", "l">>),
              Cat(<<WordCI(<<"t", "r", "l">>), Opt(Ch("."))>>)>>),
          WordBoundary>>)

\* the while loop of findMatches: exec from lastIndex on
RECURSIVE findMatchesFrom(_, _, _, _)
findMatchesFrom(text, pattern, type, lastIndex) ==
    IF lastIndex > Len(text) THEN <<>>
    ELSE LET ends == MatchEnds(pattern, text, lastIndex)
         IN IF ends = <<>> THEN findMatchesFrom(text, pattern, type, lastIndex + 1)
            ELSE <<[type |-> type, value |-> SubSeq(text, lastIndex + 1, ends[1]),
                    startIndex |-> lastIndex, endIndex |-> ends[1]]>>
                 \o findMatchesFrom(text, pattern, type,
                                    IF ends[1] > lastIndex THEN ends[1] ELSE lastIndex + 1)

findMatches(text, pattern, type) == findMatchesFrom(text, pattern, type, 0)

detectEmails(text) == findMatches(text, EMAIL_PATTERN, "email")

detectPhones(text) == findMatches(text, PHONE_PATTERN, "phone")

detectSSNs(text) == findMatches(text, SSN_PATTERN, "ssn")

detectCreditCards(text) ==
    SelectSeq(findMatches(text, CREDIT_CARD_PATTERN, "credit_card"),
              LAMBDA match :
                LET digitsOnly == SelectSeq(match.value, LAMBDA c : c \notin {"-"} \cup Space)
                    uniqueDigits == Cardinality({digitsOnly[i] : i \in 1..Len(digitsOnly)})
                IN uniqueDigits > 1 /\ Len(digitsOnly) >= 13 /\ Len(digitsOnly) <= 19)

detectIPAddresses(text) ==
    SelectSeq(findMatches(text, IP_ADDRESS_PATTERN, "ip_address"),
              LAMBDA match :
                /\ match.value # <<"1", "2", "7", ".", "0", ".", "0", ".", "1">>
                /\ match.value # <<"0", ".", "0", ".", "0", ".", "0">>
                /\ match.value # <<"2", "5", "5", ".", "2", "5", "5", ".",
                                   "2", "5", "5", ".", "2", "5", "5">>)

detectAddresses(text) == findMatches(text, ADDRESS_PATTERN, "address")

\* Array.prototype.sort by startIndex ascending (stable)
RECURSIVE InsertByStartAsc(_, _)
InsertByStartAsc(sorted, m) ==
    IF sorted = <<>> THEN <<m>>
    ELSE IF m.startIndex < Head(sorted).startIndex THEN <<m>> \o sorted
    ELSE <<Head(sorted)>> \o InsertByStartAsc(Tail(sorted), m)

RECURSIVE SortByStartAsc(_)
SortByStartAsc(matches) ==
    IF matches = <<>> THEN <<>>
    ELSE InsertByStartAsc(SortByStartAsc(SubSeq(matches, 1, Len(matches) - 1)),
                          matches[Len(matches)])

\* Array.prototype.sort by startIndex descending (stable)
RECURSIVE InsertByStartDesc(_, _)
InsertByStartDesc(sorted, m) ==
    IF sorted = <<>> THEN <<m>>
    ELSE IF m.startIndex > Head(sorted).startIndex THEN <<m>> \o sorted
    ELSE <<Head(sorted)>> \o InsertByStartDesc(Tail(sorted), m)

RECURSIVE SortByStartDesc(_)
SortByStartDesc(matches) ==
    IF matches = <<>> THEN <<>>
    ELSE InsertByStartDesc(SortByStartDesc(SubSeq(matches, 1, Len(matches) - 1)),
                           matches[Len(matches)])

detectPII(text) ==
    IF text = <<>> THEN [hasPII |-> FALSE, matches |-> <<>>, types |-> {}]
    ELSE LET allMatches ==
                 SortByStartAsc(detectEmails(text) \o detectPhones(text) \o detectSSNs(text)
                                  \o detectCreditCards(text) \o detectIPAddresses(text)
                                  \o detectAddresses(text))
         IN [hasPII |-> Len(allMatches) > 0,
             matches |-> allMatches,
             types |-> {allMatches[i].type : i \in 1..Len(allMatches)}]

TYPE_LABELS(type) ==
    CASE type = "email" -> <<"[", "E", "M", "A", "I", "L", "]">>
      [] type = "phone" -> <<"[", "P", "H", "O", "N", "E", "]">>
      [] type = "ssn" -> <<"[", "S", "S", "N", "]">>
      [] type = "credit_card" -> <<"[", "C", "R", "E", "D", "I", "T", "_", "C", "A", "R", "D", "]">>
      [] type = "ip_address" -> <<"[", "I", "P", "_", "A", "D", "D", "R", "E", "S", "S", "]">>
      [] type = "address" -> <<"[", "A", "D", "D", "R", "E", "S", "S", "]">>

\* the replacements "type_label" and "remove" (a mask is not modelled)
getReplacementText(match, replacement) ==
    IF replacement = "remove" THEN <<>> ELSE TYPE_LABELS(match.type)

\* String.prototype.substring(from, to) with both indices clamped to the length
SubstringOf(text, from, to) ==
    SubSeq(text, Min(from, Len(text)) + 1, Min(to, Len(text)))

\* the for loop of redactPII over the matches sorted from the last start to the
\* first: each match is cut out at the indices it had in the original text
RECURSIVE RedactLoop(_, _, _)
RedactLoop(redactedText, sortedMatches, replacement) ==
    IF sortedMatches = <<>> THEN redactedText
    ELSE LET match == Head(sortedMatches)
         IN RedactLoop(SubstringOf(redactedText, 0, match.startIndex)
                         \o getReplacementText(match, replacement)
                         \o SubstringOf(redactedText, match.endIndex, Len(redactedText)),
                       Tail(sortedMatches), replacement)

redactPII(text, replacement) ==
    LET detection == detectPII(text)
    IN IF text = <<>> \/ ~detection.hasPII
       THEN [redactedText |-> text, redactions |-> <<>>, wasRedacted |-> FALSE]
       ELSE [redactedText |-> RedactLoop(text, SortByStartDesc(detection.matches), replacement),
             redactions |-> detection.matches,
             wasRedacted |-> TRUE]

redactForLogging(text) == redactPII(text, "type_label").redactedText


\* ---- the safety processor (lib/safety/index.ts) ----
\* the characters a token text spells: a letter for each ordinary character, the
\* blank, the line feed, and a character no pattern names for the removed classes
RECURSIVE Chars(_)
Chars(text) ==
    IF text = <<>> THEN <<>>
    ELSE LET t == Head(text)
             c == CASE t.k = "sp" -> " "
                    [] t.k = "nl" -> "\n"
                    [] t.k \in {"zw", "ctl"} -> "~"
                    [] OTHER -> "x"
         IN (IF t.k = "lit" THEN t.w ELSE [i \in 1..t.n |-> c]) \o Chars(Tail(text))

\* Every PII pattern needs a digit or an "@", and only spelled-out runs hold
\* them: a text without a spelled-out run has no match.
Spelled(text) == \E i \in 1..Len(text) : text[i].k = "lit"

\* detectPII on a token text
detectPIIInText(text) ==
    IF Spelled(text) THEN detectPII(Chars(text))
    ELSE [hasPII |-> FALSE, matches |-> <<>>, types |-> {}]

\* redactForLogging on a token text: the text itself when nothing is detected
redactForLoggingText(text) ==
    IF detectPIIInText(text).hasPII THEN <<Lit(redactForLogging(Chars(text)))>> ELSE text

processUserInput(text) ==
    LET sanitizationResult == sanitizeInput(text)
        piiResult == detectPIIInText(sanitizationResult.sanitizedText)
        piiRedacted == redactForLoggingText(sanitizationResult.sanitizedText)
        flags == sanitizationResult.flags \cup {"pii_" \o t : t \in piiResult.types}
    IN [sanitized |-> sanitizationResult.sanitizedText,
        piiRedacted |-> piiRedacted,
        hasPII |-> piiResult.hasPII,
        piiTypes |-> piiResult.types,
        riskLevel |-> sanitizationResult.riskLevel,
        flags |-> flags,
        wasModified |-> sanitizationResult.wasModified,
        shouldBlock |-> (sanitizationResult.riskLevel = "high")]

(***************************************************************************)
(* Context assembly (lib/rag/context)                                      *)
(* A string that the assembler only measures is modelled by its length:    *)
(* an article is [id, title, content, similarity] with title and content   *)
(* lengths, a ticket message is [author_type, is_public, body] with body   *)
(* a length, a similar ticket is [id, subject, messages, resolution,       *)
(* similarity] with resolution a length, 0 standing for null.              *)
(***************************************************************************)
DEFAULT_MAX_KB_ARTICLES == 3
DEFAULT_MAX_TICKETS == 2
DEFAULT_MAX_CONTEXT_LENGTH == 4000
DEFAULT_KB_THRESHOLD == 40
DEFAULT_TICKET_THRESHOLD == 40

DefaultAssemblyOptions ==
    [maxKbArticles |-> DEFAULT_MAX_KB_ARTICLES,
     maxTickets |-> DEFAULT_MAX_TICKETS,
     maxContextLength |-> DEFAULT_MAX_CONTEXT_LENGTH]

\* number of characters of a positive integer printed in decimal
RECURSIVE Digits(_)
Digits(n) == IF n < 10 THEN 1 ELSE 1 + Digits(n \div 10)

truncateContent(content, maxLength) ==
    IF content <= maxLength THEN content ELSE (maxLength - 3) + 3

\* "\n\n[Article i: title]" and "\n" + truncateContent(content, 800)
KbItemLength(article, i) ==
    (2 + 9 + Digits(i) + 2 + article.title + 1) + (1 + truncateContent(article.content, 800))

\* the for loop of formatKBSection from index i (1-based) on
RECURSIVE KbLoop(_, _, _, _, _)
KbLoop(articles, i, currentLength, sources, maxLength) ==
    IF i > Len(articles) THEN [length |-> currentLength, sources |-> sources]
    ELSE LET sectionLength == KbItemLength(articles[i], i)
         IN IF currentLength + sectionLength > maxLength /\ i > 1
            THEN [length |-> currentLength, sources |-> sources]
            ELSE KbLoop(articles, i + 1, currentLength + sectionLength,
                        Append(sources, [type |-> "kb", id |-> articles[i].id,
                                         title |-> articles[i].title,
                                         similarity |-> articles[i].similarity]),
                        maxLength)

\* A section that would list every article it was given, rendered or not.
formatKBSectionListsAll(articles, maxLength) ==
    LET r == KbLoop(articles, 1, 15, <<>>, maxLength)
    IN [content |-> IF Len(r.sources) > 0 THEN r.length ELSE 0,
        sources |-> [i \in 1..Len(articles) |->
                        [type |-> "kb", id |-> articles[i].id, title |-> articles[i].title,
                         similarity |-> articles[i].similarity]]]

\* content is the length of the section's text, 0 for the empty string
formatKBSection(articles, maxLength) ==
    LET r == KbLoop(articles, 1, 15, <<>>, maxLength)
    IN [content |-> IF Len(r.sources) > 0 THEN r.length ELSE 0, sources |-> r.sources]

\* customerMessages[0]?.body || "No customer message available"
FirstCustomerBody(ticket) ==
    LET customerMessages == SelectSeq(ticket.messages, LAMBDA m : m.author_type = "customer")
    IN IF Len(customerMessages) > 0 /\ customerMessages[1].body > 0
       THEN customerMessages[1].body
       ELSE 29

TicketItemLength(ticket, i) ==
    (2 + 8 + Digits(i) + 2 + ticket.subject + 1)
      + (11 + truncateContent(FirstCustomerBody(ticket), 300))
      + (IF ticket.resolution > 0 THEN 13 + truncateContent(ticket.resolution, 500) ELSE 35)

RECURSIVE TicketLoop(_, _, _, _, _)

\* A ticket loop that would stop before the first ticket as well.
RECURSIVE TicketLoopStrict(_, _, _, _, _)
TicketLoopStrict(tickets, i, currentLength, sources, maxLength) ==
    IF i > Len(tickets) THEN [length |-> currentLength, sources |-> sources]
    ELSE LET sectionLength == TicketItemLength(tickets[i], i)
         IN IF currentLength + sectionLength > maxLength
            THEN [length |-> currentLength, sources |-> sources]
            ELSE TicketLoopStrict(tickets, i + 1, currentLength + sectionLength,
                            Append(sources, [type |-> "ticket", id |-> tickets[i].id,
                                             title |-> tickets[i].subject,
                                             similarity |-> tickets[i].similarity]),
                            maxLength)

TicketLoop(tickets, i, currentLength, sources, maxLength) ==
    IF i > Len(tickets) THEN [length |-> currentLength, sources |-> sources]
    ELSE LET sectionLength == TicketItemLength(tickets[i], i)
         IN IF currentLength + sectionLength > maxLength /\ i > 1
            THEN [length |-> currentLength, sources |-> sources]
            ELSE TicketLoop(tickets, i + 1, currentLength + sectionLength,
                            Append(sources, [type |-> "ticket", id |-> tickets[i].id,
                                             title |-> tickets[i].subject,
                                             similarity |-> tickets[i].similarity]),
                            maxLength)

formatTicketSection(tickets, maxLength) ==
    LET r == TicketLoop(tickets, 1, 25, <<>>, maxLength)
    IN [content |-> IF Len(r.sources) > 0 THEN r.length ELSE 0, sources |-> r.sources]


\* A no-context answer that would still claim to have context.
NoContextFoundFlagged ==
    [systemContext |-> [text |-> "no-relevant-context", length |-> 145],
     sources |-> <<>>, hasContext |-> TRUE]

\* The "no relevant context" sentinel (145 characters).
NoContextFound ==
    [systemContext |-> [text |-> "no-relevant-context", length |-> 145],
     sources |-> <<>>, hasContext |-> FALSE]

\* A failed retrieval that would still report a source.
UnableToRetrieveStale ==
    [systemContext |-> [text |-> "sections", length |-> 405],
     sources |-> <<[type |-> "kb", id |-> 1, title |-> 24, similarity |-> 82]>>,
     hasContext |-> TRUE]

\* The context buildFullContext returns from its catch block (111 characters).
UnableToRetrieve ==
    [systemContext |-> [text |-> "unable-to-retrieve", length |-> 111],
     sources |-> <<>>, hasContext |-> FALSE]

\* retrieved: [kbArticles, similarTickets]
assembleContext(retrieved, options) ==
    LET sortedArticles ==
            Take(SortBySimilarityDesc(retrieved.kbArticles), options.maxKbArticles)
        sortedTickets ==
            Take(SortBySimilarityDesc(retrieved.similarTickets), options.maxTickets)
        kbSection ==
            IF Len(sortedArticles) > 0
            THEN formatKBSection(sortedArticles, options.maxContextLength)
            ELSE [content |-> 0, sources |-> <<>>]
        kbUsed == kbSection.content > 0
        length1 == IF kbUsed THEN kbSection.content ELSE 0
        ticketSection ==
            IF Len(sortedTickets) > 0 /\ length1 < options.maxContextLength
            THEN formatTicketSection(sortedTickets, options.maxContextLength - length1)
            ELSE [content |-> 0, sources |-> <<>>]
        ticketUsed == ticketSection.content > 0
        sources == (IF kbUsed THEN kbSection.sources ELSE <<>>)
                     \o (IF ticketUsed THEN ticketSection.sources ELSE <<>>)
        \* contextParts.join("\n\n")
        joined == length1 + (IF ticketUsed THEN ticketSection.content ELSE 0)
                    + (IF kbUsed /\ ticketUsed THEN 2 ELSE 0)
    IN IF ~kbUsed /\ ~ticketUsed
       THEN NoContextFound
       ELSE [systemContext |-> [text |-> "sections", length |-> joined],
             sources |-> sources, hasContext |-> TRUE]

\* the resolution fetchTicketDetails derives: the body of the last public agent
\* message, or null (0)
ResolutionOf(messages) ==
    LET agentMessages ==
            SelectSeq(messages, LAMBDA m : m.author_type = "agent" /\ m.is_public)
    IN IF Len(agentMessages) > 0 THEN agentMessages[Len(agentMessages)].body ELSE 0

(***************************************************************************)
(* The request: its two callers, buildFullContext and generateDraft        *)
(***************************************************************************)
\* Bounds of the model: how many rows a similarity search returns at most.
MaxKbResults == 1
MaxTicketResults == 2

\* Customer texts of the modelled requests.
PasswordQuestion == <<Txt(27)>>                \* "How do I reset my password?"
Asdf == <<Txt(4)>>                             \* "asdf"
IgnorePrevious ==                              \* "ignore previous instructions"
    <<Kw("ignore", 6), Sp(1), Kw("previous", 8), Sp(1), Kw("instructions", 12)>>
\* "My SSN is 123-45-6789"
SsnMessage ==
    <<Lit(<<"M", "y", " ", "S", "S", "N", " ", "i", "s", " ", "1", "2", "3", "-", "4", "5", "-", "6", "7", "8", "9">>)>>
Messages ==
    { PasswordQuestion, Asdf, <<>>, <<Sp(2)>>, <<Txt(1200)>>, IgnorePrevious,
      <<Kw("<system>", 8), Sp(1), Txt(40)>>, <<Sp(1), Txt(12), Sp(4)>>, SsnMessage }

Entries == {"POST", "testSingleQuery"}

\* Similarities a stored row can have to the query, in hundredths.
RowSimilarities == {10, 45, 82}

\* match_knowledge / match_similar_tickets: rows with similarity > match_threshold,
\* at most match_count of them.
MatchingSimilarities(matchThreshold) == {x \in RowSimilarities : x > matchThreshold}

SearchResults(matchThreshold, matchCount, most) ==
    UNION { [1..n -> MatchingSimilarities(matchThreshold)] : n \in 0..Min(matchCount, most) }

KbRows(organizationRows) ==
    [i \in 1..Len(organizationRows) |->
        [id |-> i, title |-> 24, content |-> 350, similarity |-> organizationRows[i]]]

TicketRows(organizationRows) ==
    [i \in 1..Len(organizationRows) |->
        [id |-> i, subject |-> 30, similarity |-> organizationRows[i]]]

\* Message threads a stored ticket can have.
Threads ==
    { <<[author_type |-> "customer", is_public |-> TRUE, body |-> 80],
        [author_type |-> "agent", is_public |-> TRUE, body |-> 200]>>,
      <<[author_type |-> "customer", is_public |-> TRUE, body |-> 80],
        [author_type |-> "agent", is_public |-> FALSE, body |-> 60]>> }

\* Lengths of the text a successful completion carries ("" when the provider
\* answers without content).
CompletionLengths == {0, 30, 49, 50, 400}

NoSafety == [none |-> TRUE]
NoContext == [none |-> TRUE]
NoConfidence == [none |-> TRUE]
NoDraft == [none |-> TRUE]
IdleTask == [st |-> "idle", res |-> <<>>]
IdleFetch == [todo |-> <<>>, got |-> <<>>]
NoCalls == [embed |-> 0, search |-> 0, fetch |-> 0, completion |-> 0, moderation |-> 0]

Called(which) == [calls EXCEPT ![which] = @ + 1]

Init ==
    /\ entry \in Entries
    /\ raw \in Messages
    /\ pc = "request"
    /\ safety = NoSafety
    /\ query = <<>>
    /\ kbTask = IdleTask
    /\ tkTask = IdleTask
    /\ fetch = IdleFetch
    /\ context = NoContext
    /\ confidence = NoConfidence
    /\ draft = NoDraft
    /\ terminal = "none"
    /\ response = "none"
    /\ calls = NoCalls
    /\ hin = <<>>
    /\ hout = <<>>

\* ---- POST /api/drafts (app/api/drafts/route.ts) ----
\* Validates the body, loads the ticket and its messages, and calls generateDraft
\* with the customers' messages (or the subject) as customerMessage.
RoutePost ==
    /\ pc = "request" /\ entry = "POST"
    /\ \E outcome \in {"missing_id", "ticket_not_found", "messages_error", "ok"} :
          IF outcome = "ok"
          THEN /\ query' = raw
               /\ pc' = "gd_context"
               /\ response' = response
          ELSE /\ response' = (IF outcome = "missing_id" THEN "400"
                               ELSE IF outcome = "ticket_not_found" THEN "404" ELSE "500")
               /\ pc' = "responded"
               /\ query' = query
    /\ UNCHANGED <<entry, raw, safety, kbTask, tkTask, fetch, context, confidence,
                   draft, terminal, calls, hin, hout>>

\* After generateDraft: saves the draft and answers with it, saved or not; an
\* exception from generateDraft is answered with status 500.
PostRespond ==
    /\ pc \in {"gd_returned", "gd_thrown"} /\ entry = "POST"
    /\ IF pc = "gd_thrown"
       THEN response' = "500"
       ELSE \E saved \in BOOLEAN :
               response' = (IF saved THEN "draft_saved" ELSE "draft_unsaved")
    /\ pc' = "responded"
    /\ UNCHANGED <<entry, raw, safety, query, kbTask, tkTask, fetch, context,
                   confidence, draft, terminal, calls, hin, hout>>

\* ---- testSingleQuery (scripts/test-pipeline.ts) ----
\* processUserInput of each text a request can carry, computed once
ProcessedInput == [text \in Messages |-> processUserInput(text)]

TestSanitize ==
    /\ pc = "request" /\ entry = "testSingleQuery"
    /\ \E safetyResult \in {ProcessedInput[raw]} :
          /\ safety' = safetyResult
          /\ IF safetyResult.shouldBlock
             THEN /\ response' = "blocked"
                  /\ pc' = "responded"
                  /\ query' = query
             ELSE /\ query' = safetyResult.sanitized
                  /\ pc' = "gd_context"
                  /\ response' = response
    /\ UNCHANGED <<entry, raw, kbTask, tkTask, fetch, context, confidence,
                   draft, terminal, calls, hin, hout>>

\* After generateDraft: the moderation check of the draft, whose failure is only
\* logged; an exception from generateDraft ends the test as failed.
TestFinish ==
    /\ pc \in {"gd_returned", "gd_thrown"} /\ entry = "testSingleQuery"
    /\ IF pc = "gd_thrown"
       THEN /\ response' = "generation_failed"
            /\ calls' = calls
       ELSE /\ calls' = Called("moderation")
            /\ \E moderated \in BOOLEAN : response' = "passed"
    /\ pc' = "responded"
    /\ UNCHANGED <<entry, raw, safety, query, kbTask, tkTask, fetch, context,
                   confidence, draft, terminal, hin, hout>>

\* A search that would ask for an embedding whatever the query.
SearchBeginUnchecked(q) == [st |-> "embedding", res |-> <<>>]

\* ---- buildFullContext (lib/rag/context) and the searches (lib/rag/retrieval.ts) ----
\* A search called with an empty query returns [] at once; otherwise its first
\* step is the embedding request.
SearchBegin(q) ==
    IF IsEmptyQuery(q) THEN [st |-> "done", res |-> <<>>]
    ELSE [st |-> "embedding", res |-> <<>>]

\* Promise.all([searchKnowledgeBase(...), searchSimilarTickets(...)]): both
\* searches are started before either is awaited.
StartSearches ==
    /\ pc = "gd_context"
    /\ kbTask' = SearchBegin(query)
    /\ tkTask' = SearchBegin(query)
    /\ calls' = [calls EXCEPT !.embed = @ + (IF IsEmptyQuery(query) THEN 0 ELSE 2)]
    /\ pc' = "gd_await"
    /\ UNCHANGED <<entry, raw, safety, query, fetch, context, confidence, draft,
                   terminal, response, hin, hout>>

\* generateEmbedding answers searchKnowledgeBase: on success the match_knowledge
\* call is issued, on failure the search rejects.
KbEmbedded ==
    /\ kbTask.st = "embedding"
    /\ \E ok \in BOOLEAN :
          IF ok THEN /\ kbTask' = [kbTask EXCEPT !.st = "rpc"]
                     /\ calls' = Called("search")
          ELSE /\ kbTask' = [kbTask EXCEPT !.st = "failed"]
               /\ calls' = calls
    /\ UNCHANGED <<entry, raw, pc, safety, query, tkTask, fetch, context, confidence,
                   draft, terminal, response, hin, hout>>

\* match_knowledge answers: an error rejects the search, rows resolve it.  Nobody
\* reads the rows once buildFullContext has left its await.
KbSearched ==
    /\ kbTask.st = "rpc"
    /\ \/ kbTask' = [kbTask EXCEPT !.st = "failed"]
       \/ \E rows \in SearchResults(DEFAULT_KB_THRESHOLD, DEFAULT_MAX_KB_ARTICLES + 2,
                                    MaxKbResults) :
             kbTask' = [st |-> "done",
                        res |-> IF pc = "gd_await" THEN KbRows(rows) ELSE <<>>]
    /\ UNCHANGED <<entry, raw, pc, safety, query, tkTask, fetch, context, confidence,
                   draft, terminal, response, calls, hin, hout>>

TkEmbedded ==
    /\ tkTask.st = "embedding"
    /\ \E ok \in BOOLEAN :
          IF ok THEN /\ tkTask' = [tkTask EXCEPT !.st = "rpc"]
                     /\ calls' = Called("search")
          ELSE /\ tkTask' = [tkTask EXCEPT !.st = "failed"]
               /\ calls' = calls
    /\ UNCHANGED <<entry, raw, pc, safety, query, kbTask, fetch, context, confidence,
                   draft, terminal, response, hin, hout>>

TkSearched ==
    /\ tkTask.st = "rpc"
    /\ \/ tkTask' = [tkTask EXCEPT !.st = "failed"]
       \/ \E rows \in SearchResults(DEFAULT_TICKET_THRESHOLD, DEFAULT_MAX_TICKETS + 1,
                                    MaxTicketResults) :
             tkTask' = [st |-> "done",
                        res |-> IF pc = "gd_await" THEN TicketRows(rows) ELSE <<>>]
    /\ UNCHANGED <<entry, raw, pc, safety, query, kbTask, fetch, context, confidence,
                   draft, terminal, response, calls, hin, hout>>

\* A buildFullContext that would start fetching threads as soon as the ticket
\* search has answered, without waiting for the article search.
SearchesResolvedEarly ==
    /\ pc = "gd_await"
    /\ tkTask.st = "done"
    /\ kbTask.st # "failed"
    /\ fetch' = [todo |-> tkTask.res, got |-> <<>>]
    /\ pc' = "gd_fetch"
    /\ UNCHANGED <<entry, raw, safety, query, kbTask, tkTask, context, confidence,
                   draft, terminal, response, calls, hin, hout>>

\* Both searches resolved: fetchTicketDetails starts on the ticket rows.
SearchesResolved ==
    /\ pc = "gd_await"
    /\ kbTask.st = "done" /\ tkTask.st = "done"
    /\ fetch' = [todo |-> tkTask.res, got |-> <<>>]
    /\ pc' = "gd_fetch"
    /\ UNCHANGED <<entry, raw, safety, query, kbTask, tkTask, context, confidence,
                   draft, terminal, response, calls, hin, hout>>

\* A catch block that would re-raise the retrieval error instead of absorbing it.
buildFullContextCatchRethrows == [raised |-> TRUE, value |-> UnableToRetrieve]

\* What the catch block of buildFullContext does with a retrieval error: it
\* returns the empty context and raises nothing.
buildFullContextCatch == [raised |-> FALSE, value |-> UnableToRetrieve]

\* One search rejected: Promise.all rejects, whatever the other search does, and
\* buildFullContext runs its catch block.  Had it raised, generateDraft's own
\* catch would wrap and re-throw the error.
SearchesRejected ==
    /\ pc = "gd_await"
    /\ kbTask.st = "failed" \/ tkTask.st = "failed"
    /\ IF buildFullContextCatch.raised
       THEN /\ pc' = "gd_thrown"
            /\ terminal' = "Thrown"
            /\ context' = context
       ELSE /\ pc' = "gd_score"
            /\ context' = buildFullContextCatch.value
            /\ terminal' = terminal
    /\ UNCHANGED <<entry, raw, safety, query, kbTask, tkTask, fetch, confidence,
                   draft, response, calls, hin, hout>>

\* A fetchTicketDetails without its inner try/catch: a failed thread fetch would
\* reach the catch block of buildFullContext.
FetchTicketAborting ==
    /\ pc = "gd_fetch"
    /\ fetch.todo # <<>>
    /\ LET result == Head(fetch.todo)
       IN \E outcome \in {<<"null">>, <<"throw">>} \cup Threads :
             IF outcome = <<"throw">>
             THEN /\ fetch' = IdleFetch
                  /\ context' = buildFullContextCatch.value
                  /\ pc' = "gd_score"
             ELSE /\ fetch' = [todo |-> Tail(fetch.todo),
                               got |-> IF outcome \in Threads
                                       THEN Append(fetch.got,
                                              [id |-> result.id, subject |-> result.subject,
                                               messages |-> outcome,
                                               resolution |-> ResolutionOf(outcome),
                                               similarity |-> result.similarity])
                                       ELSE fetch.got]
                  /\ UNCHANGED <<pc, context>>
    /\ calls' = Called("fetch")
    /\ UNCHANGED <<entry, raw, safety, query, kbTask, tkTask, confidence,
                   draft, terminal, response, hin, hout>>

\* fetchTicketDetails, one ticket row: getTicketWithMessages answers with the
\* ticket and its thread, with null, or with an error; only a ticket is kept.
FetchTicket ==
    /\ pc = "gd_fetch"
    /\ fetch.todo # <<>>
    /\ LET result == Head(fetch.todo)
       IN \E outcome \in {<<"null">>, <<"throw">>} \cup Threads :
             fetch' = [todo |-> Tail(fetch.todo),
                       got |-> IF outcome \in Threads
                               THEN Append(fetch.got,
                                      [id |-> result.id, subject |-> result.subject,
                                       messages |-> outcome,
                                       resolution |-> ResolutionOf(outcome),
                                       similarity |-> result.similarity])
                               ELSE fetch.got]
    /\ calls' = Called("fetch")
    /\ UNCHANGED <<entry, raw, pc, safety, query, kbTask, tkTask, context, confidence,
                   draft, terminal, response, hin, hout>>

\* All rows fetched: the retrieved context is assembled and returned; the locals
\* of buildFullContext are gone.
Assemble ==
    /\ pc = "gd_fetch"
    /\ fetch.todo = <<>>
    /\ context' = assembleContext([kbArticles |-> kbTask.res, similarTickets |-> fetch.got],
                                  DefaultAssemblyOptions)
    /\ kbTask' = IdleTask
    /\ tkTask' = IdleTask
    /\ fetch' = IdleFetch
    /\ pc' = "gd_score"
    /\ UNCHANGED <<entry, raw, safety, query, confidence, draft, terminal, response,
                   calls, hin, hout>>

(***************************************************************************)
(* Draft orchestrator (lib/ai/generate-draft.ts)                           *)
(***************************************************************************)
CountOfType(sources, type) ==
    Cardinality({i \in 1..Len(sources) : sources[i].type = type})

\* context.sources.map((s) => ({ similarity: s.similarity }))
Similarities(sources) ==
    [i \in 1..Len(sources) |-> [similarity |-> sources[i].similarity]]

\* context.sources.map((s) => ({ type, id, title, similarity }))
SourcesOut(sources) ==
    [i \in 1..Len(sources) |->
        [type |-> sources[i].type, id |-> sources[i].id,
         title |-> sources[i].title, similarity |-> sources[i].similarity]]

\* Step 2 of generateDraft: the preliminary confidence of an assembled context.
PreliminaryConfidence(ctx, customerMessageLength) ==
    calculateConfidence(Similarities(ctx.sources), customerMessageLength,
                        CountOfType(ctx.sources, "kb"),
                        CountOfType(ctx.sources, "ticket"))


\* A source count that would be one too high.
TotalSourcesOffByOne(ctx) ==
    CountOfType(ctx.sources, "kb") + CountOfType(ctx.sources, "ticket") + 1

TotalSources(ctx) ==
    CountOfType(ctx.sources, "kb") + CountOfType(ctx.sources, "ticket")

\* A fallback draft that would leave the review flag off.
FallbackUnreviewed == FALSE

\* the review flag every fallback draft carries
FallbackNeedsReview == TRUE

\* Step 3: the draft returned when the fallback gate fires.
FallbackOutput(ctx, confidenceResult, customerMessageLength) ==
    LET fallbackReason == getFallbackReason(confidenceResult.score, TotalSources(ctx),
                                            customerMessageLength)
        fallbackResponse == generateFallbackResponse(fallbackReason)
    IN [content |-> fallbackResponse.content,
        confidenceScore |-> confidenceResult.score,
        confidenceLevel |-> confidenceResult.level,
        confidenceExplanation |-> confidenceResult.explanation,
        needsReview |-> FallbackNeedsReview,
        sources |-> SourcesOut(ctx.sources),
        metadata |-> [model |-> "fallback",
                      retrievedKbCount |-> CountOfType(ctx.sources, "kb"),
                      retrievedTicketCount |-> CountOfType(ctx.sources, "ticket"),
                      confidenceFactors |-> confidenceResult.factors],
        isFallback |-> TRUE,
        fallbackReason |-> fallbackReason,
        suggestedActions |-> fallbackResponse.suggestedActions]

\* Step 5, catch block: the draft returned when the completion fails.
ErrorFallbackOutput(ctx, confidenceResult) ==
    LET fallbackResponse == generateErrorFallback
    IN [content |-> fallbackResponse.content,
        confidenceScore |-> confidenceResult.score,
        confidenceLevel |-> confidenceResult.level,
        confidenceExplanation |-> "Generation failed - using fallback response",
        needsReview |-> TRUE,
        sources |-> SourcesOut(ctx.sources),
        metadata |-> [model |-> "fallback",
                      retrievedKbCount |-> CountOfType(ctx.sources, "kb"),
                      retrievedTicketCount |-> CountOfType(ctx.sources, "ticket"),
                      confidenceFactors |-> confidenceResult.factors],
        isFallback |-> TRUE,
        fallbackReason |-> "generation_error",
        suggestedActions |-> fallbackResponse.suggestedActions]

\* Step 6: the draft built from a completion.
GeneratedOutput(ctx, confidenceResult, completionResult) ==
    LET needsReview == \/ shouldFlagForReview(confidenceResult)
                       \/ completionResult.content.length < 50
    IN [content |-> completionResult.content,
        confidenceScore |-> confidenceResult.score,
        confidenceLevel |-> confidenceResult.level,
        confidenceExplanation |-> confidenceResult.explanation,
        needsReview |-> needsReview,
        sources |-> SourcesOut(ctx.sources),
        metadata |-> [model |-> completionResult.model,
                      retrievedKbCount |-> CountOfType(ctx.sources, "kb"),
                      retrievedTicketCount |-> CountOfType(ctx.sources, "ticket"),
                      confidenceFactors |-> confidenceResult.factors],
        isFallback |-> FALSE]


\* buildUserPrompt and buildMessages (lib/rag/prompts.ts): the system prompt and
\* the user prompt, which carries the context text and the customer message as
\* they were handed in
buildUserPrompt(customerMessage, ctx) ==
    [context |-> ctx.systemContext, customerMessage |-> customerMessage]

buildMessages(customerMessage, ctx) ==
    <<[role |-> "system", content |-> "SYSTEM_PROMPT"],
      [role |-> "user", content |-> buildUserPrompt(customerMessage, ctx)]>>

\* the messages of the completion request in flight (step 4 of generateDraft)
CompletionMessages == buildMessages(query, context)

\* An orchestrator without the pre-generation gate: every request reaches the
\* completion provider.
FallbackGateSkipped(confidenceResult, ctx) == FALSE

\* the fallback gate of step 3
FallbackGate(confidenceResult, ctx) ==
    shouldUseFallback(confidenceResult.score, TotalSources(ctx))

\* Steps 2-5 up to the completion request: score the context, then either return
\* the canned fallback or send the built messages to the completion provider.
ScoreAndGate ==
    /\ pc = "gd_score"
    /\ \E confidenceResult \in {PreliminaryConfidence(context, TextLen(query))} :
          /\ confidence' = confidenceResult
          /\ IF FallbackGate(confidenceResult, context)
             THEN /\ draft' = FallbackOutput(context, confidenceResult, TextLen(query))
                  /\ terminal' = "Fallback"
                  /\ pc' = "gd_returned"
                  /\ calls' = calls
             ELSE /\ calls' = Called("completion")
                  /\ pc' = "gd_completion"
                  /\ UNCHANGED <<draft, terminal>>
    /\ UNCHANGED <<entry, raw, safety, query, kbTask, tkTask, fetch, context,
                   response, hin, hout>>

\* generateCompletion answers: it throws, or it returns content (possibly "").
CompletionDone ==
    /\ pc = "gd_completion"
    /\ \/ /\ draft' = ErrorFallbackOutput(context, confidence)
          /\ terminal' = "Error-Fallback"
       \/ \E n \in CompletionLengths :
             /\ draft' = GeneratedOutput(context, confidence,
                            [content |-> [length |-> n], model |-> "gpt-4o"])
             /\ terminal' = "Generated"
    /\ pc' = "gd_returned"
    /\ UNCHANGED <<entry, raw, safety, query, kbTask, tkTask, fetch, context,
                   confidence, response, calls, hin, hout>>

(***************************************************************************)
(* The request pipeline                                                    *)
(***************************************************************************)
Next ==
    \/ RoutePost
    \/ PostRespond
    \/ TestSanitize
    \/ TestFinish
    \/ StartSearches
    \/ KbEmbedded
    \/ KbSearched
    \/ TkEmbedded
    \/ TkSearched
    \/ SearchesResolved
    \/ SearchesRejected
    \/ FetchTicket
    \/ Assemble
    \/ ScoreAndGate
    \/ CompletionDone

Spec == Init /\ [][Next]_vars

\* The control part of Assemble and of ScoreAndGate: the guard and the move of
\* pc.  A step of Spec satisfies it exactly when it is a step of that action.
AssembleStep == pc = "gd_fetch" /\ fetch.todo = <<>> /\ pc' = "gd_score"

ScoreAndGateStep == pc = "gd_score" /\ pc' \in {"gd_returned", "gd_completion"}

\* Every provider call is answered (with a result or an error) and every await
\* resumes, so each step that is enabled is eventually taken.
Fairness ==
    /\ WF_vars(RoutePost) /\ WF_vars(PostRespond)
    /\ WF_vars(TestSanitize) /\ WF_vars(TestFinish)
    /\ WF_vars(StartSearches)
    /\ WF_vars(KbEmbedded) /\ WF_vars(KbSearched)
    /\ WF_vars(TkEmbedded) /\ WF_vars(TkSearched)
    /\ WF_vars(SearchesResolved) /\ WF_vars(SearchesRejected)
    /\ WF_vars(FetchTicket)
    /\ WF_pc(AssembleStep)
    /\ WF_pc(ScoreAndGateStep)
    /\ WF_vars(CompletionDone)

FairSpec == Spec /\ Fairness

(***************************************************************************)
(* The pure functions on their own: an input is drawn in the initial state *)
(* (hin), one step applies a function to it and leaves the result in hout. *)
(* The pipeline's variables stay idle.                                     *)
(***************************************************************************)
PipelineIdle ==
    /\ entry = "none"
    /\ raw = <<>>
    /\ safety = NoSafety
    /\ query = <<>>
    /\ kbTask = IdleTask
    /\ tkTask = IdleTask
    /\ fetch = IdleFetch
    /\ context = NoContext
    /\ confidence = NoConfidence
    /\ draft = NoDraft
    /\ terminal = "none"
    /\ response = "none"
    /\ calls = NoCalls

Returns(fn, value) ==
    /\ pc = "fn_input"
    /\ pc' = "fn_result"
    /\ hout' = [fn |-> fn, value |-> value]
    /\ UNCHANGED <<entry, raw, safety, query, kbTask, tkTask, fetch, context,
                   confidence, draft, terminal, response, calls, hin>>

\* ---- lib/ai/fallback.ts ----
MaxSourcesCount == 2

\* scores around the two thresholds, one score unit to either side of each
ScoreGrid ==
    {0, 20 * FactorUnit, 30 * FactorUnit - 1, 30 * FactorUnit, 30 * FactorUnit + 1,
     35 * FactorUnit, 40 * FactorUnit - 1, 40 * FactorUnit, 40 * FactorUnit + 1,
     60 * FactorUnit, ScoreUnit}

QueryLengthGrid == {0, 9, 10, 11, 50, 999, 1000, 1001}

FallbackInit ==
    /\ PipelineIdle
    /\ pc = "fn_input"
    /\ hin \in [confidenceScore : ScoreGrid, sourcesCount : 0..MaxSourcesCount,
                queryLength : QueryLengthGrid]
    /\ hout = <<>>

ApplyShouldUseFallback ==
    Returns("shouldUseFallback", shouldUseFallback(hin.confidenceScore, hin.sourcesCount))

ApplyGetFallbackReason ==
    Returns("getFallbackReason",
            getFallbackReason(hin.confidenceScore, hin.sourcesCount, hin.queryLength))

FallbackNext == ApplyShouldUseFallback \/ ApplyGetFallbackReason

FallbackSpec == FallbackInit /\ [][FallbackNext]_vars

\* ---- lib/ai/confidence, and steps 2-6 of generateDraft as a function ----
MaxSources == 3

SimilarityGrid == {0, 40, 82, 100}

ClarityLengthGrid == {0, 5, 15, 27, 110, 350, 1200}

\* lists of more than TOP_SOURCES_COUNT sources, the lowest in different places
LongSourceLists == {<<40, 100, 0, 82>>, <<0, 82, 82, 82>>, <<100, 82, 40, 40, 0>>}

SourceLists == UNION {[1..n -> SimilarityGrid] : n \in 0..MaxSources} \cup LongSourceLists

ConfInit ==
    /\ PipelineIdle
    /\ pc = "fn_input"
    /\ hin \in [sources : SourceLists, queryLength : ClarityLengthGrid,
                kbMatchCount : {0, 1, 3, 6}, ticketMatchCount : {0, 2}]
    /\ hout = <<>>

\* The assembled context whose sources have the drawn similarities: the first
\* kbMatchCount of them articles, the others tickets.
ContextOf(input) ==
    [systemContext |-> [text |-> "sections", length |-> 0],
     sources |-> [i \in 1..Len(input.sources) |->
                     [type |-> IF i <= input.kbMatchCount THEN "kb" ELSE "ticket",
                      id |-> i, title |-> 24, similarity |-> input.sources[i]]],
     hasContext |-> Len(input.sources) > 0]

ApplyCalculateConfidence ==
    Returns("calculateConfidence",
            calculateConfidence([i \in 1..Len(hin.sources) |->
                                    [similarity |-> hin.sources[i]]],
                                hin.queryLength, hin.kbMatchCount, hin.ticketMatchCount))

BuildFallbackDraft ==
    LET ctx == ContextOf(hin)
        confidenceResult == PreliminaryConfidence(ctx, hin.queryLength)
    IN /\ FallbackGate(confidenceResult, ctx)
       /\ Returns("Fallback", FallbackOutput(ctx, confidenceResult, hin.queryLength))

BuildErrorFallbackDraft ==
    LET ctx == ContextOf(hin)
        confidenceResult == PreliminaryConfidence(ctx, hin.queryLength)
    IN /\ ~FallbackGate(confidenceResult, ctx)
       /\ Returns("Error-Fallback", ErrorFallbackOutput(ctx, confidenceResult))

BuildGeneratedDraft ==
    LET ctx == ContextOf(hin)
        confidenceResult == PreliminaryConfidence(ctx, hin.queryLength)
    IN /\ ~FallbackGate(confidenceResult, ctx)
       /\ \E n \in CompletionLengths :
             Returns("Generated",
                     GeneratedOutput(ctx, confidenceResult,
                                     [content |-> [length |-> n], model |-> "gpt-4o"]))

ConfNext ==
    \/ ApplyCalculateConfidence
    \/ BuildFallbackDraft
    \/ BuildErrorFallbackDraft
    \/ BuildGeneratedDraft

ConfSpec == ConfInit /\ [][ConfNext]_vars

(***************************************************************************)
(* Properties                                                              *)
(***************************************************************************)
TerminalStates == {"Fallback", "Generated", "Error-Fallback"}

\* The shape of the draft each terminal state returns; no draft has two shapes.
DraftShape(d) ==
    IF ~d.isFallback THEN "Generated"
    ELSE IF d.fallbackReason = "generation_error" THEN "Error-Fallback"
    ELSE "Fallback"

GenerateDraftReturned ==
    /\ pc \in {"gd_returned", "responded"}
    /\ terminal \in TerminalStates
    /\ draft # NoDraft
    /\ DraftShape(draft) = terminal

NoRetrievalOrCompletionCall ==
    calls.embed = 0 /\ calls.search = 0 /\ calls.fetch = 0 /\ calls.completion = 0

SearchFailed == kbTask.st = "failed" \/ tkTask.st = "failed"

C2_PostRunsSafetyFirst ==
    entry = "POST" =>
        /\ pc \notin {"request", "responded"} => safety # NoSafety
        /\ processUserInput(raw).shouldBlock => NoRetrievalOrCompletionCall

\* C3: when shouldUseFallback is true for the computed score and source count, no
\* completion call is made for the request and the request returns the canned
\* Fallback draft.
C3_FallbackSkipsCompletion ==
    (confidence # NoConfidence
       /\ shouldUseFallback(confidence.score, Len(context.sources))) =>
        /\ calls.completion = 0
        /\ terminal = "Fallback"
        /\ draft # NoDraft
        /\ draft.isFallback
        /\ draft.metadata.model = "fallback"
        /\ draft.content = [template |-> draft.fallbackReason]

C3_Witness ==
    /\ terminal = "Fallback"
    /\ calls.search = 2
    /\ calls.completion = 0
    /\ shouldUseFallback(confidence.score, Len(context.sources))

\* C4: every returned draft with isFallback = true (Fallback or Error-Fallback)
\* has needsReview = true.
C4_FallbackNeedsReview ==
    draft # NoDraft =>
        ((draft.isFallback \/ terminal \in {"Fallback", "Error-Fallback"})
            => draft.needsReview)

C4_Witness ==
    /\ terminal = "Error-Fallback"
    /\ draft.isFallback
    /\ draft.needsReview
    /\ ~shouldFlagForReview(confidence)

C8_FallbackReasonOrder ==
    (pc = "fn_result" /\ hout.fn = "getFallbackReason") =>
        /\ hout.value =
              (IF hin.queryLength < 10 \/ hin.queryLength > 1000 THEN "unclear_query"
               ELSE IF hin.sourcesCount = 0 THEN "no_sources"
               ELSE IF hin.confidenceScore < 40 * FactorUnit THEN "low_similarity"
               ELSE "generation_error")
        /\ (\/ hin.confidenceScore < 30 * FactorUnit
            \/ hin.confidenceScore < 40 * FactorUnit /\ hin.sourcesCount = 0)
              => hout.value \in {"unclear_query", "no_sources", "low_similarity"}

C8_Witness ==
    /\ pc = "fn_result"
    /\ hout.fn = "getFallbackReason"
    /\ hin.queryLength = 1000
    /\ hin.sourcesCount > 0
    /\ hin.confidenceScore = 30 * FactorUnit - 1
    /\ hout.value = "low_similarity"

ScoreOf(result) ==
    IF result.fn = "calculateConfidence" THEN result.value.score
    ELSE result.value.confidenceScore

LevelOf(result) ==
    IF result.fn = "calculateConfidence" THEN result.value.level
    ELSE result.value.confidenceLevel

\* C9: for all confidence inputs the score lies in [0,1], and in every
\* ConfidenceResult and every draft of every terminal state the level is the
\* threshold function of the score: high iff score >= 0.75, medium iff
\* 0.50 <= score < 0.75, low otherwise.
C9_ScoreRangeAndLevel ==
    pc = "fn_result" =>
        /\ ScoreOf(hout) >= 0
        /\ ScoreOf(hout) <= ScoreUnit
        /\ LevelOf(hout) \in {"high", "medium", "low"}
        /\ LevelOf(hout) = "high" <=> ScoreOf(hout) >= 75 * FactorUnit
        /\ LevelOf(hout) = "medium" <=>
              (50 * FactorUnit <= ScoreOf(hout) /\ ScoreOf(hout) < 75 * FactorUnit)
        /\ LevelOf(hout) = "low" <=> ScoreOf(hout) < 50 * FactorUnit

C9_Witness ==
    /\ pc = "fn_result"
    /\ hout.fn = "Error-Fallback"
    /\ ScoreOf(hout) >= 70 * FactorUnit
    /\ ScoreOf(hout) < 75 * FactorUnit
    /\ LevelOf(hout) = "medium"

\* The request of end-to-end scenario 1 once generateDraft has returned: the
\* password question, one knowledge article at 0.82 and no similar ticket
\* retrieved, and a completion that succeeded.
PasswordScenario ==
    /\ pc \in {"gd_returned", "responded"}
    /\ query = PasswordQuestion
    /\ TextLen(query) = 27
    /\ calls.fetch = 0
    /\ Len(context.sources) = 1
    /\ context.sources[1].type = "kb"
    /\ context.sources[1].similarity = 82
    /\ terminal = "Generated"

OneKbSource(d) == Len(d.sources) = 1 /\ d.sources[1].type = "kb"

\* C10: in the password scenario the draft has confidence score 0.67125, in the
\* medium band (0.50 <= score < 0.75), isFallback = false, and exactly one
\* source, of type kb.
C10_PasswordScenarioMedium ==
    PasswordScenario =>
        /\ draft.confidenceScore = 67125 * (ScoreUnit \div 100000)
        /\ draft.confidenceLevel = "medium"
        /\ ~draft.isFallback
        /\ OneKbSource(draft)

C10_Witness ==
    /\ PasswordScenario
    /\ draft.confidenceLevel = "medium"
    /\ ~draft.isFallback
    /\ draft.sources[1].similarity = 82

\* C10 as stated: in the password scenario the score is in the high band
\* (>= 0.75), isFallback = false, and there is exactly one source, of type kb.
C10_PasswordScenarioHigh ==
    PasswordScenario =>
        /\ draft.confidenceScore >= 75 * FactorUnit
        /\ ~draft.isFallback
        /\ OneKbSource(draft)


MaxArticles == 2

MaxTickets == 2

\* similarities a retrieved item can carry (all above the search thresholds)
AssemblySimilarities == {45, 82}

\* RetrievedContext.kbArticles: up to MaxArticles articles, in any order
AssemblyArticles ==
    { KbRows(s) : s \in UNION { [1..n -> AssemblySimilarities] : n \in 0..MaxArticles } }

\* RetrievedContext.similarTickets: up to MaxTickets tickets with their threads
AssemblyTickets ==
    { [i \in 1..Len(s) |->
          [id |-> i, subject |-> 30, messages |-> s[i].thread,
           resolution |-> ResolutionOf(s[i].thread), similarity |-> s[i].similarity]]
      : s \in UNION { [1..n -> [similarity : AssemblySimilarities, thread : Threads]]
                      : n \in 0..MaxTickets } }

\* maxContextLength values: below one article (100), exactly one article (405),
\* one article and part of a ticket (500), exactly one article and one ticket
\* with its resolution (778), the default
AssemblyBudgets == {100, 405, 500, 778, DEFAULT_MAX_CONTEXT_LENGTH}

AssemblyOptions ==
    [maxKbArticles : {0, 1, DEFAULT_MAX_KB_ARTICLES},
     maxTickets : {0, 1, DEFAULT_MAX_TICKETS},
     maxContextLength : AssemblyBudgets]

AssemblyInit ==
    /\ PipelineIdle
    /\ pc = "fn_input"
    /\ hin \in [retrieved : [kbArticles : AssemblyArticles, similarTickets : AssemblyTickets],
                options : AssemblyOptions]
    /\ hout = <<>>

ApplyAssembleContext ==
    Returns("assembleContext", assembleContext(hin.retrieved, hin.options))

\* buildFullContext whose searches and fetches answered with hin.retrieved
ApplyBuildFullContext ==
    Returns("buildFullContext", assembleContext(hin.retrieved, hin.options))

\* buildFullContext whose searches rejected: the catch block answers
ApplyBuildFullContextFailed ==
    Returns("buildFullContextFailed", buildFullContextCatch.value)

AssemblyNext ==
    ApplyAssembleContext \/ ApplyBuildFullContext \/ ApplyBuildFullContextFailed

AssemblySpec == AssemblyInit /\ [][AssemblyNext]_vars

AssemblyReturned ==
    pc = "fn_result" /\ hout.fn \in {"assembleContext", "buildFullContext"}

EmptyRetrieved == hin.retrieved.kbArticles = <<>> /\ hin.retrieved.similarTickets = <<>>

\* C12: every context returned by assembleContext or buildFullContext, the
\* error path included, has hasContext = false exactly when its sources list is
\* empty; and an empty retrieved context yields hasContext = false, no sources
\* and the no-context text, whatever the options.
C12_HasContextIffSources ==
    pc = "fn_result" =>
        /\ (hout.value.hasContext = FALSE) <=> (hout.value.sources = <<>>)
        /\ (AssemblyReturned /\ EmptyRetrieved) => hout.value = NoContextFound
        /\ hout.fn = "buildFullContextFailed" =>
              ~hout.value.hasContext /\ hout.value.sources = <<>>

C12_Witness ==
    /\ AssemblyReturned
    /\ EmptyRetrieved
    /\ hin.options.maxContextLength = 100
    /\ hout.value = NoContextFound


SortedDesc(sources) ==
    \A i \in 1..(Len(sources) - 1) : sources[i].similarity >= sources[i + 1].similarity

SourcesOfType(sources, type) == SelectSeq(sources, LAMBDA s : s.type = type)

\* The references of the articles, highest similarity first, followed by the
\* references of the tickets, highest similarity first.
SortedWithinType(sources) ==
    /\ sources = SourcesOfType(sources, "kb") \o SourcesOfType(sources, "ticket")
    /\ SortedDesc(SourcesOfType(sources, "kb"))
    /\ SortedDesc(SourcesOfType(sources, "ticket"))

GeneratedDraftBuilt == pc = "fn_result" /\ hout.fn = "Generated"

\* C14: a Generated draft has needsReview = true exactly when its confidence
\* level is low, or its sourceCoverage factor is 0, or its queryClarity factor is
\* below 0.3, or the generated text is shorter than 50 characters.
C14_GeneratedNeedsReview ==
    GeneratedDraftBuilt =>
        LET d == hout.value
            factors == d.metadata.confidenceFactors
        IN /\ ~d.isFallback
           /\ d.needsReview <=>
                 \/ d.confidenceLevel = "low"
                 \/ factors.sourceCoverage = 0
                 \/ 10 * factors.queryClarity < 3 * FactorUnit
                 \/ d.content.length < 50

C14_Witness ==
    /\ GeneratedDraftBuilt
    /\ hout.value.confidenceLevel = "high"
    /\ hout.value.metadata.confidenceFactors.sourceCoverage > 0
    /\ 10 * hout.value.metadata.confidenceFactors.queryClarity < 3 * FactorUnit
    /\ hout.value.content.length = 50
    /\ hout.value.needsReview


(***************************************************************************)
(* The safety processor applied to texts drawn from a bounded set          *)
(* (lib/safety/index.ts, sanitization)                                     *)
(***************************************************************************)
MaxParts == 3

\* the pieces an input text is put together from: ordinary text, blanks, line
\* breaks, an invisible and a control character, the phrases of the two rules,
\* and a run of text longer than MAX_INPUT_LENGTH
TextParts ==
    { <<Txt(12)>>, <<Sp(1)>>, <<Sp(4)>>, <<Nl(5)>>, <<Zw(1)>>, <<Ctl(1)>>,
      IgnorePrevious, <<Kw("<system>", 8)>>, <<Txt(MAX_INPUT_LENGTH + 1)>> }

RECURSIVE Concat(_)
Concat(parts) == IF parts = <<>> THEN <<>> ELSE Head(parts) \o Concat(Tail(parts))

\* a token sequence that spells a string: adjacent runs of one class are one token
Canonical(text) ==
    \A i \in 1..(Len(text) - 1) : text[i].k = "kw" \/ text[i].k # text[i + 1].k

\* "ignore previous instructions" with one zero-width character, or one control
\* character, put between "ignore" and the blank that follows it
InterleavedPhrases ==
    { <<Kw("ignore", 6), c, Sp(1), Kw("previous", 8), Sp(1), Kw("instructions", 12)>>
      : c \in {Zw(1), Ctl(1)} }

SafetyTexts ==
    { t \in { Concat(p) : p \in UNION { [1..n -> TextParts] : n \in 0..MaxParts } } :
        Canonical(t) }
      \cup InterleavedPhrases

SafetyInit ==
    /\ PipelineIdle
    /\ pc = "fn_input"
    /\ hin \in [text : SafetyTexts]
    /\ hout = <<>>

ApplySanitizeInput == Returns("sanitizeInput", sanitizeInput(hin.text))

ApplyProcessUserInput == Returns("processUserInput", processUserInput(hin.text))

SafetyNext == ApplySanitizeInput \/ ApplyProcessUserInput

SafetySpec == SafetyInit /\ [][SafetyNext]_vars

RuleFired(flags, risk) ==
    \E r \in InjectionRules : r.risk = risk /\ ("prompt_injection_" \o r.name) \in flags

\* C15: the risk level of a processed input is high if a high-risk injection rule
\* fired, otherwise medium if a medium-risk rule fired, otherwise low if one of
\* the flags control_characters, invisible_characters, excessive_whitespace,
\* truncated was raised, otherwise none; shouldBlock holds exactly when the
\* risk level is high.
C15_RiskLevelTiers ==
    (pc = "fn_result" /\ hout.fn = "processUserInput") =>
        LET r == hout.value
        IN /\ r.riskLevel =
                 IF RuleFired(r.flags, "high") THEN "high"
                 ELSE IF RuleFired(r.flags, "medium") THEN "medium"
                 ELSE IF r.flags \cap {"control_characters", "invisible_characters",
                                       "excessive_whitespace", "truncated"} # {}
                 THEN "low"
                 ELSE "none"
           /\ r.shouldBlock <=> (r.riskLevel = "high")

C15_Witness ==
    /\ pc = "fn_result"
    /\ hout.fn = "processUserInput"
    /\ hout.value.flags = {"truncated"}
    /\ hout.value.riskLevel = "low"
    /\ ~hout.value.shouldBlock


(***************************************************************************)
(* detectPII, redactPII and redactForLogging applied to texts drawn from a *)
(* bounded set                                                             *)
(***************************************************************************)
MaxPiiParts == 2

\* "a@b.com", "123-45-6789", "4111111111111111", " thanks", "555-123-4567",
\* "u@1.2.3.4.com", " Oak Ave", "SSN: ", "10.0.0.7"
PiiParts ==
    {
      <<"a", "@", "b", ".", "c", "o", "m">>,
      <<"1", "2", "3", "-", "4", "5", "-", "6", "7", "8", "9">>,
      <<"4", "1", "1", "1", "1", "1", "1", "1", "1", "1", "1", "1", "1", "1", "1", "1">>,
      <<" ", "t", "h", "a", "n", "k", "s">>,
      <<"5", "5", "5", "-", "1", "2", "3", "-", "4", "5", "6", "7">>,
      <<"u", "@", "1", ".", "2", ".", "3", ".", "4", ".", "c", "o", "m">>,
      <<" ", "O", "a", "k", " ", "A", "v", "e">>,
      <<"S", "S", "N", ":", " ">>,
      <<"1", "0", ".", "0", ".", "0", ".", "7">> }

PiiTexts == { Concat(p) : p \in UNION { [1..n -> PiiParts] : n \in 0..MaxPiiParts } }

PiiInit ==
    /\ PipelineIdle
    /\ pc = "fn_input"
    /\ hin \in [text : PiiTexts]
    /\ hout = <<>>

ApplyDetectPII == Returns("detectPII", detectPII(hin.text))

ApplyRedactPII == Returns("redactPII", redactPII(hin.text, "type_label"))

\* redactForLogging applied to a text and again to its own result
ApplyRedactForLogging ==
    \E once \in {redactForLogging(hin.text)} :
        Returns("redactForLogging",
                [once |-> once, twice |-> redactForLogging(once),
                 detectedAgain |-> detectPII(once).matches])

PiiNext == ApplyDetectPII \/ ApplyRedactPII \/ ApplyRedactForLogging

PiiSpec == PiiInit /\ [][PiiNext]_vars


\* C16: label redaction is idempotent: redacting an already redacted text
\* changes nothing, and no PII span is detected in a redacted text.
C16_RedactionIdempotent ==
    (pc = "fn_result" /\ hout.fn = "redactForLogging") =>
        /\ hout.value.twice = hout.value.once
        /\ hout.value.detectedAgain = <<>>

Covered(matches, p) ==
    \E i \in 1..Len(matches) : matches[i].startIndex <= p /\ p < matches[i].endIndex

RECURSIVE LabelsOf(_)
LabelsOf(matches) ==
    IF matches = <<>> THEN <<>>
    ELSE TYPE_LABELS(Head(matches).type) \o LabelsOf(Tail(matches))

\* the text read from position p on, each span replaced by its label where it
\* starts, each covered character dropped, every other character kept
RECURSIVE LabelledFrom(_, _, _)
LabelledFrom(text, matches, p) ==
    IF p >= Len(text) THEN <<>>
    ELSE LabelsOf(SelectSeq(matches, LAMBDA m : m.startIndex = p))
           \o (IF Covered(matches, p) THEN <<>> ELSE <<text[p + 1]>>)
           \o LabelledFrom(text, matches, p + 1)

\* C17: redactPII with the type_label replacement returns the text in which
\* every span detectPII reports, overlapping and nested spans included, is
\* replaced by its [TYPE] label, no covered character survives, and the
\* characters outside all spans are unchanged and in their original order.
C17_RedactReplacesEverySpan ==
    (pc = "fn_result" /\ hout.fn = "redactPII") =>
        hout.value.redactedText =
            LabelledFrom(hin.text, detectPII(hin.text).matches, 0)


\* C18: PII is detected and redacted before any LLM call: the customer text in
\* the messages passed to the completion provider holds no span that detectPII
\* reports.
C18_NoPiiToCompletion ==
    pc = "gd_completion" =>
        ~detectPIIInText(CompletionMessages[2].content.customerMessage).hasPII


AssembleContextReturned == pc = "fn_result" /\ hout.fn = "assembleContext"

\* the item the descending stable sort puts first: the first of those with the
\* highest similarity
TopItem(items) ==
    items[CHOOSE i \in 1..Len(items) :
              \A j \in 1..Len(items) :
                  /\ items[i].similarity >= items[j].similarity
                  /\ items[j].similarity = items[i].similarity => i <= j]

Includes(sources, type, item) ==
    \E k \in 1..Len(sources) :
        /\ sources[k].type = type
        /\ sources[k].id = item.id
        /\ sources[k].similarity = item.similarity

\* the length of the knowledge-base section of the drawn input
KbSectionLength ==
    LET sortedArticles ==
            Take(SortBySimilarityDesc(hin.retrieved.kbArticles), hin.options.maxKbArticles)
    IN IF Len(sortedArticles) > 0
       THEN formatKBSection(sortedArticles, hin.options.maxContextLength).content
       ELSE 0

AtLeastOneOfEach == hin.options.maxKbArticles >= 1 /\ hin.options.maxTickets >= 1

FirstArticleLength ==
    15 + KbItemLength(TopItem(hin.retrieved.kbArticles), 1)

\* header and first item of the ticket section
FirstTicketLength ==
    25 + TicketItemLength(TopItem(hin.retrieved.similarTickets), 1)

\* each rendered section's header and first item fit in the budget that is left
\* when the section starts
FirstItemsFit ==
    /\ SourcesOfType(hout.value.sources, "kb") # <<>>
          => FirstArticleLength <= hin.options.maxContextLength
    /\ SourcesOfType(hout.value.sources, "ticket") # <<>>
          => FirstTicketLength <= hin.options.maxContextLength - KbSectionLength

\* C20: when the header and first item of each rendered section fit in the
\* budget left when that section starts, the assembled text (both sections and
\* the separator between them) is at most maxContextLength characters long.
C20_AssembledWithinBudget ==
    (AssembleContextReturned /\ hout.value.hasContext /\ FirstItemsFit) =>
        hout.value.systemContext.length <= hin.options.maxContextLength


\* the source reference pushed for an article and for a ticket
ArticleRef(a) == [type |-> "kb", id |-> a.id, title |-> a.title, similarity |-> a.similarity]

TicketRef(t) == [type |-> "ticket", id |-> t.id, title |-> t.subject, similarity |-> t.similarity]

\* the length of a section that renders exactly the first k of the items
RECURSIVE RenderedArticles(_, _)
RenderedArticles(articles, k) ==
    IF k = 0 THEN 0 ELSE RenderedArticles(articles, k - 1) + KbItemLength(articles[k], k)

RECURSIVE RenderedTickets(_, _)
RenderedTickets(tickets, k) ==
    IF k = 0 THEN 0 ELSE RenderedTickets(tickets, k - 1) + TicketItemLength(tickets[k], k)

RenderedLength(articles, ka, tickets, kt) ==
    (IF ka > 0 THEN 15 + RenderedArticles(articles, ka) ELSE 0)
      + (IF kt > 0 THEN 25 + RenderedTickets(tickets, kt) ELSE 0)
      + (IF ka > 0 /\ kt > 0 THEN 2 ELSE 0)

\* C21: the sources of an assembled context are the references of the first ka
\* articles sorted by similarity descending (ka at most maxKbArticles) followed
\* by the references of the first kt tickets sorted by similarity descending (kt
\* at most maxTickets), and the text holds exactly these items: its length is
\* that of the sections rendering the first ka articles and the first kt tickets.
C21_SourcesAreRenderedPrefixes ==
    AssembleContextReturned =>
        LET articles == SortBySimilarityDesc(hin.retrieved.kbArticles)
            tickets == SortBySimilarityDesc(hin.retrieved.similarTickets)
            kb == SourcesOfType(hout.value.sources, "kb")
            tk == SourcesOfType(hout.value.sources, "ticket")
        IN /\ hout.value.sources = kb \o tk
           /\ Len(kb) <= Min(hin.options.maxKbArticles, Len(articles))
           /\ Len(tk) <= Min(hin.options.maxTickets, Len(tickets))
           /\ kb = [i \in 1..Len(kb) |-> ArticleRef(articles[i])]
           /\ tk = [i \in 1..Len(tk) |-> TicketRef(tickets[i])]
           /\ hout.value.hasContext =>
                 hout.value.systemContext.length
                    = RenderedLength(articles, Len(kb), tickets, Len(tk))

\* two articles and two tickets retrieved in ascending order of similarity, the
\* budget dropping the second article and the second ticket
C21_Witness ==
    /\ AssembleContextReturned
    /\ Len(hin.retrieved.kbArticles) = 2
    /\ hin.retrieved.kbArticles[1].similarity < hin.retrieved.kbArticles[2].similarity
    /\ Len(hin.retrieved.similarTickets) = 2
    /\ hin.retrieved.similarTickets[1].similarity < hin.retrieved.similarTickets[2].similarity
    /\ hin.options.maxKbArticles = DEFAULT_MAX_KB_ARTICLES
    /\ hin.options.maxTickets = DEFAULT_MAX_TICKETS
    /\ Len(hout.value.sources) = 2
    /\ hout.value.sources[1] = ArticleRef(hin.retrieved.kbArticles[2])
    /\ hout.value.sources[2] = TicketRef(hin.retrieved.similarTickets[2])


\* the sum of the similarities at the positions K of a list
RECURSIVE SumAt(_, _)
SumAt(sims, K) ==
    IF K = {} THEN 0
    ELSE LET k == CHOOSE x \in K : TRUE IN sims[k] + SumAt(sims, K \ {k})

\* the largest sum n of the similarities can reach: the sum of the n highest
TopSum(sims, n) ==
    LET sums == { SumAt(sims, K) : K \in { J \in SUBSET (1..Len(sims)) : Cardinality(J) = n } }
    IN CHOOSE s \in sums : \A t \in sums : t <= s

CalculateConfidenceReturned == pc = "fn_result" /\ hout.fn = "calculateConfidence"

\* C22: calculateConfidence returns sourceRelevance = the mean of the (at most)
\* 3 highest similarities, 0 without sources; sourceCoverage =
\* min(1, (kbMatchCount + ticketMatchCount) / 5); contextMatch = the highest
\* similarity, 0 without sources; every factor within [0,1]; and score =
\* 0.40 sourceRelevance + 0.25 sourceCoverage + 0.15 queryClarity
\* + 0.20 contextMatch, within [0,1].
C22_FactorsAndWeightedScore ==
    CalculateConfidenceReturned =>
        LET f == hout.value.factors
            n == Min(3, Len(hin.sources))
            total == hin.kbMatchCount + hin.ticketMatchCount
        IN /\ IF n = 0 THEN f.sourceRelevance = 0 /\ f.contextMatch = 0
              ELSE /\ f.sourceRelevance * n * SimUnit = TopSum(hin.sources, n) * FactorUnit
                   /\ f.contextMatch * SimUnit = TopSum(hin.sources, 1) * FactorUnit
                   /\ \A i \in 1..Len(hin.sources) :
                         hin.sources[i] * FactorUnit <= f.contextMatch * SimUnit
           /\ IF total >= 5 THEN f.sourceCoverage = FactorUnit
              ELSE f.sourceCoverage * 5 = total * FactorUnit
           /\ \A x \in {f.sourceRelevance, f.sourceCoverage, f.queryClarity, f.contextMatch} :
                 0 <= x /\ x <= FactorUnit
           /\ hout.value.score
                 = 40 * f.sourceRelevance + 25 * f.sourceCoverage
                     + 15 * f.queryClarity + 20 * f.contextMatch
           /\ 0 <= hout.value.score /\ hout.value.score <= 100 * FactorUnit

\* four sources of which the lowest is left out of the mean, five matches or more
C22_Witness ==
    /\ CalculateConfidenceReturned
    /\ hin.sources = <<40, 100, 0, 82>>
    /\ hin.kbMatchCount + hin.ticketMatchCount = 5
    /\ hin.queryLength = 27
    /\ hout.value.factors.sourceRelevance * 3 = 222 * (FactorUnit \div SimUnit)
    /\ hout.value.factors.sourceCoverage = FactorUnit
    /\ hout.value.factors.contextMatch = FactorUnit


SanitizeInputReturned == pc = "fn_result" /\ hout.fn = "sanitizeInput"

\* no control character, no invisible character, no injection pattern, and not
\* longer than the maximum input length
CleanCharacters(text) ==
    /\ \A i \in 1..Len(text) : text[i].k \notin {"ctl", "zw"}
    /\ ~detectPromptInjection(text).detected
    /\ TextLen(text) <= MAX_INPUT_LENGTH

\* a run of three or more spaces or tabs, or of four or more newlines
HasLongRun(text) ==
    \E i \in 1..Len(text) :
        \/ text[i].k = "sp" /\ text[i].n >= 3
        \/ text[i].k = "nl" /\ text[i].n >= 4

HasOuterWhitespace(text) ==
    text # <<>> /\ (IsSpace(text[1]) \/ IsSpace(text[Len(text)]))

\* C23 (as the code has it): for a text without control characters, invisible
\* characters and injection patterns and of at most the maximum length,
\* sanitizeInput returns wasModified = false exactly when the text has neither
\* leading or trailing white space nor a run of three or more spaces or four or
\* more newlines (and then returns the text itself); its risk level is none
\* unless the text has such a run, and low if it has.
C23_CleanNormalisedTextUnmodified ==
    (SanitizeInputReturned /\ CleanCharacters(hin.text)) =>
        /\ hout.value.wasModified <=> (HasLongRun(hin.text) \/ HasOuterWhitespace(hin.text))
        /\ ~hout.value.wasModified => hout.value.sanitizedText = hin.text
        /\ hout.value.riskLevel = IF HasLongRun(hin.text) THEN "low" ELSE "none"

\* "word word" with one blank inside is returned as it is
C23_Witness ==
    /\ SanitizeInputReturned
    /\ hin.text = <<Txt(12), Sp(1), Txt(12)>>
    /\ ~hout.value.wasModified
    /\ hout.value.riskLevel = "none"
    /\ hout.value.flags = {}

\* C23 (as stated): every text without control characters, invisible characters
\* and injection patterns and of at most the maximum length, leading or trailing
\* white space and runs of three or more spaces included, gives
\* wasModified = false and riskLevel = none.
C23_CleanTextUnmodified ==
    (SanitizeInputReturned /\ CleanCharacters(hin.text)) =>
        ~hout.value.wasModified /\ hout.value.riskLevel = "none"

SanitizationFlags ==
    {"control_characters", "invisible_characters", "excessive_whitespace", "truncated"}

\* out is text without its leading and trailing white space
IsTrimOf(out, text) ==
    /\ ~HasOuterWhitespace(out)
    /\ \E a \in 1..(Len(text) + 1), b \in 0..Len(text) :
          /\ out = SubSeq(text, a, b)
          /\ \A i \in 1..Len(text) : (i < a \/ i > b) => IsSpace(text[i])

\* C24 (as the code has it): in every sanitization result a flag among
\* control_characters, invisible_characters, excessive_whitespace, truncated
\* implies wasModified, and wasModified without any of these flags happens
\* exactly when trimming was the only step that changed the text: the input
\* had leading or trailing white space and nothing else to strip, collapse or
\* cut.
C24_FlagsImplyModified ==
    SanitizeInputReturned =>
        LET r == hout.value
            flagged == r.flags \cap SanitizationFlags # {}
        IN /\ flagged => r.wasModified
           /\ (r.wasModified /\ ~flagged) =>
                 /\ HasOuterWhitespace(hin.text)
                 /\ IsTrimOf(r.sanitizedText, hin.text)
           /\ (~r.wasModified) => r.sanitizedText = hin.text

\* " word": trimmed, modified, no flag
C24_Witness ==
    /\ SanitizeInputReturned
    /\ hin.text = <<Sp(1), Txt(12)>>
    /\ hout.value.sanitizedText = <<Txt(12)>>
    /\ hout.value.wasModified
    /\ hout.value.flags = {}

\* C24 (as stated): wasModified holds if and only if the flags hold one of
\* control_characters, invisible_characters, excessive_whitespace, truncated.
C24_ModifiedIffFlagged ==
    SanitizeInputReturned =>
        (hout.value.wasModified <=> (hout.value.flags \cap SanitizationFlags # {}))


\* C25: while the query of a request is empty or only white space, no
\* embedding, no similarity search and no thread fetch is ever requested, the
\* searches answer with no rows at once, and the context buildFullContext returns
\* is the empty one: hasContext = false and no sources.
C25_EmptyQueryCallsNothing ==
    IsEmptyQuery(query) =>
        /\ calls.embed = 0 /\ calls.search = 0 /\ calls.fetch = 0
        /\ kbTask.st \in {"idle", "done"} /\ kbTask.res = <<>>
        /\ tkTask.st \in {"idle", "done"} /\ tkTask.res = <<>>
        /\ fetch = IdleFetch
        /\ context # NoContext => (~context.hasContext /\ context.sources = <<>>)
        /\ pc \in {"gd_score", "gd_completion", "gd_returned"} => context = NoContextFound

\* a query of two blanks has gone through buildFullContext
C25_Witness ==
    /\ pc = "gd_score"
    /\ query = <<Sp(2)>>
    /\ context = NoContextFound
    /\ calls = NoCalls

Outstanding(task) == task.st \in {"embedding", "rpc"}

\* C26: buildFullContext starts both searches before it awaits either; a thread
\* fetch is requested only after both searches have answered, one ticket row at
\* a time in the order of the rows; and the assembled context is a function of
\* the rows and threads alone, so it is the same whichever search answered first.
C26_SearchesTogetherFetchesAfter ==
    /\ [](pc = "gd_await" => (kbTask.st # "idle" /\ tkTask.st # "idle"))
    /\ [][calls'.fetch # calls.fetch =>
             /\ kbTask.st = "done" /\ tkTask.st = "done"
             /\ ~Outstanding(kbTask') /\ ~Outstanding(tkTask')
             /\ calls'.fetch = calls.fetch + 1
             /\ fetch.todo # <<>> /\ fetch'.todo = Tail(fetch.todo)]_vars
    /\ [][(pc = "gd_await" /\ pc' = "gd_fetch") =>
             /\ kbTask.st = "done" /\ tkTask.st = "done"
             /\ fetch' = [todo |-> tkTask.res, got |-> <<>>]]_vars
    /\ [][(pc = "gd_fetch" /\ pc' = "gd_score") =>
             context' = assembleContext([kbArticles |-> kbTask.res,
                                         similarTickets |-> fetch.got],
                                        DefaultAssemblyOptions)]_vars

\* both searches are waiting for the similarity-search service at once
C26_Witness ==
    /\ pc = "gd_await"
    /\ kbTask.st = "rpc"
    /\ tkTask.st = "rpc"
    /\ calls.search = 2
    /\ calls.fetch = 0

\* the ticket search has answered while the article search is still out, and
\* the other way round
TicketSearchFirst == pc = "gd_await" /\ tkTask.st = "done" /\ Outstanding(kbTask)

ArticleSearchFirst == pc = "gd_await" /\ kbTask.st = "done" /\ Outstanding(tkTask)

\* C27: the embedding provider is asked at most once per request.
C27_EmbeddedOncePerRequest == calls.embed <= 1


SanitizedOf(result) ==
    IF result.fn = "sanitizeInput" THEN result.value.sanitizedText ELSE result.value.sanitized

MatchesHighRiskRule(text) ==
    \E r \in InjectionRules : r.risk = "high" /\ RuleMatches(r.name, text)

\* C28: in every result of sanitizeInput and processUserInput whose risk level
\* is not high, the sanitized text matches no high-risk injection rule.
C28_UnblockedTextHasNoInjection ==
    (pc = "fn_result" /\ hout.fn \in {"sanitizeInput", "processUserInput"}) =>
        (hout.value.riskLevel # "high" => ~MatchesHighRiskRule(SanitizedOf(hout)))


DraftBuilt == pc = "fn_result" /\ hout.fn \in {"Fallback", "Error-Fallback", "Generated"}

\* every source at or above the default search threshold, and, as the searches
\* return no rows for an empty query, a query of at least one character
\* wherever there is a source
ProviderContract(input) ==
    /\ \A i \in 1..Len(input.sources) : input.sources[i] >= DEFAULT_KB_THRESHOLD
    /\ input.sources # <<>> => input.queryLength >= 1

TicketWith(row, thread) ==
    [id |-> row.id, subject |-> row.subject, messages |-> thread,
     resolution |-> ResolutionOf(thread), similarity |-> row.similarity]

\* C30: a thread fetch, whatever its outcome, consumes one ticket row and
\* nothing else: buildFullContext stays in its fetch loop, the article rows and
\* the tickets already fetched are kept, and the row's ticket is appended when
\* its thread arrived and left out otherwise; the loop is left only with all rows
\* consumed and through assembly of the article rows and the fetched tickets;
\* and the empty context of the catch block is returned only when no thread
\* fetch was ever issued.
C30_FetchFailureOmitsOneTicket ==
    /\ [][calls'.fetch # calls.fetch =>
             /\ pc = "gd_fetch" /\ pc' = "gd_fetch"
             /\ kbTask' = kbTask /\ context' = context
             /\ fetch.todo # <<>> /\ fetch'.todo = Tail(fetch.todo)
             /\ \/ fetch'.got = fetch.got
                \/ \E thread \in Threads :
                      fetch'.got = Append(fetch.got, TicketWith(Head(fetch.todo), thread))]_vars
    /\ [][(pc = "gd_fetch" /\ pc' # "gd_fetch") =>
             /\ pc' = "gd_score"
             /\ fetch.todo = <<>>
             /\ context' = assembleContext([kbArticles |-> kbTask.res,
                                            similarTickets |-> fetch.got],
                                           DefaultAssemblyOptions)
             /\ context' # UnableToRetrieve]_vars
    /\ [](context = UnableToRetrieve => calls.fetch = 0)

\* two similar tickets were found, the thread of the first could not be fetched:
\* the context holds the article and the second ticket
C30_Witness ==
    /\ pc = "gd_score"
    /\ calls.fetch = 2
    /\ context # NoContext
    /\ context.hasContext
    /\ Len(context.sources) = 2
    /\ context.sources[1].type = "kb"
    /\ context.sources[2].type = "ticket"
    /\ context.sources[2].id = 2

=============================================================================
